---- MODULE Spec2Model ----
(***************************************************************************)
(* Model of the obesity-predictor preprocessing / comparison core.         *)
(*                                                                         *)
(*  - TrainPreprocessor / InferencePreprocessor (fit, transform, save,     *)
(*    load) over small pandas-like tables, with the scikit-learn           *)
(*    ColumnTransformer(StandardScaler, OneHotEncoder) computed exactly.   *)
(*  - ModelComparator.compare over an ordered mapping of trainers.         *)
(*                                                                         *)
(* Numbers are exact: a numeric column holds integers in units of 1/Unit   *)
(* (BMI in units of 1/BMIDen), mean_ and var_ are reduced fractions, and a *)
(* float cell v of the output is the triple <<sign(v), p, q>> with p/q the *)
(* reduced fraction equal to v squared.                                    *)
(***************************************************************************)
EXTENDS Integers, Sequences, FiniteSets, TLC

VARIABLES
    pre,      \* the preprocessor objects: id -> [kind, fitted, pipeline, feature_names]
    disk,     \* the preprocessor artifact file written by save / read by load
    op,       \* name of the last preprocessor call
    who,      \* id of the object the last call was made on
    arg,      \* the caller's table after the last fit/transform call (they mutate it)
    out,      \* what the last call returned
    err,      \* the exception the last call raised ("" when it returned)
    results,  \* ModelComparator.results: ordered mapping name -> metrics
    cmp,      \* the last compare call: its trainers, what it returned or raised
    trainer,  \* the trainer objects: backend -> [model_name, model]
    files,    \* the artifact directory: path -> file
    ip,       \* the InferencePipeline object: [model, preprocessor]
    last,     \* the last trainer / pipeline call: what it was given, returned or raised
    resp,     \* the last request to the prediction endpoint and its response
    call,     \* a call of a function that keeps no state: its name, input and result
    orch,     \* the orchestration run: its position, trainers, files, results
    srv       \* the API process: the requests in flight, each with its position

preVars == <<pre, disk, op, who, arg, out, err>>
cmpVars == <<results, cmp>>
pipeVars == <<trainer, files, ip, last>>
apiVars == <<resp>>
extVars == <<call, orch, srv>>

vars == <<pre, disk, op, who, arg, out, err, results, cmp, trainer, files, ip, last, resp,
          call, orch, srv>>

-----------------------------------------------------------------------------
(* Bounds *)

MaxRows == 2        \* longest table passed to fit / transform
MaxF1 == 1          \* F1 scores are drawn from 0..MaxF1

-----------------------------------------------------------------------------
(* Generic helpers *)

Range(s) == {s[i] : i \in 1..Len(s)}

RECURSIVE SumSeq(_)
SumSeq(s) == IF s = <<>> THEN 0 ELSE Head(s) + SumSeq(Tail(s))

RECURSIVE Flatten(_)
Flatten(ss) == IF ss = <<>> THEN <<>> ELSE Head(ss) \o Flatten(Tail(ss))

RECURSIVE Gcd(_, _)
Gcd(a, b) == IF b = 0 THEN a ELSE Gcd(b, a % b)

Abs(x) == IF x < 0 THEN -x ELSE x
Sign(x) == IF x < 0 THEN -1 ELSE IF x = 0 THEN 0 ELSE 1

\* the fraction p/q (q > 0) in lowest terms
Frac(p, q) == LET g == Gcd(Abs(p), q) IN <<p \div g, q \div g>>

RECURSIVE ProdSet(_)
ProdSet(S) == IF S = {} THEN 1 ELSE LET x == CHOOSE y \in S : TRUE IN x * ProdSet(S \ {x})

\* Python None, for attributes that hold None or an object
None == [none |-> TRUE]
Some(v) == [none |-> FALSE, val |-> v]

-----------------------------------------------------------------------------
(* Exceptions (the class the Python code raises) *)

NoError == ""
\* raised by BasePreprocessor._check_fitted: the not-fitted error
NotFittedError == "RuntimeError"
KeyError == "KeyError"                    \* data["Age"] on a table without the column
AttributeError == "AttributeError"        \* None.transform(...)
ValueError == "ValueError"
SklearnNotFitted == "sklearn.NotFittedError"  \* transform of a ColumnTransformer never fitted
FileNotFoundError == "FileNotFoundError"
\* raised by joblib.load on bytes that are not a complete pickle: which class
\* depends on the bytes (an empty file or a pickle cut inside an argument raises
\* EOFError, a first byte that is no opcode raises KeyError, a cut length field
\* struct.error, an opcode that pops an empty stack IndexError, the unpickler's
\* own checks UnpicklingError, array data cut short or a bad argument ValueError,
\* a global of a module that cannot be imported ModuleNotFoundError, a global
\* its module lacks AttributeError, a reduce call with wrong arguments TypeError)
UnpicklingError == "UnpicklingError"
EOFError == "EOFError"
StructError == "struct.error"
IndexError == "IndexError"
ModuleNotFoundError == "ModuleNotFoundError"
TypeError == "TypeError"
\* raised by a write that cannot complete
OSError == "OSError"
\* raised by an MLflow call whose request to the tracking server fails
MlflowException == "MlflowException"
\* raised by max() over an empty self.results: the empty-trainer-set error
EmptyTrainerSetError == ValueError

-----------------------------------------------------------------------------
(* Tables (pandas.DataFrame): ordered columns, a dtype per column, rows *)

TargetColumn == "NObeyesdad"

DataFrame(cols, dtype, rows) == [cols |-> cols, dtype |-> dtype, rows |-> rows]

HasColumn(df, c) == c \in Range(df.cols)

Column(df, c) == [i \in 1..Len(df.rows) |-> df.rows[i][c]]

\* data[c] = vals : overwrite column c in place, or append it as the last column
SetColumn(df, c, ty, vals) ==
    LET cols == IF HasColumn(df, c) THEN df.cols ELSE Append(df.cols, c)
    IN  DataFrame(cols,
                  [k \in Range(cols) |-> IF k = c THEN ty ELSE df.dtype[k]],
                  [i \in 1..Len(df.rows) |->
                      [k \in Range(cols) |-> IF k = c THEN vals[i] ELSE df.rows[i][k]]])

\* data.select_dtypes(include="number").columns.tolist()
NumberColumns(df) == SelectSeq(df.cols, LAMBDA c : df.dtype[c] = "number")
\* data.select_dtypes(exclude="number").columns.tolist()
OtherColumns(df) == SelectSeq(df.cols, LAMBDA c : df.dtype[c] # "number")

\* list.remove(x) guarded by "if x in list"
Without(s, x) == SelectSeq(s, LAMBDA c : c # x)

-----------------------------------------------------------------------------
(* The input domain *)

rA == [Age |-> 17, Height |-> 1, Weight |-> 1, Gender |-> "Male"]
rB == [Age |-> 25, Height |-> 2, Weight |-> 3, Gender |-> "Female"]
Records == {rA, rB}

RawCols == <<"Age", "Height", "Weight", "Gender">>
RawDtype == [c \in Range(RawCols) |-> IF c = "Gender" THEN "object" ELSE "number"]

RowLists == UNION {[1..n -> Records] : n \in 1..MaxRows}

RawTables == {DataFrame(RawCols, RawDtype, rows) : rows \in RowLists}

\* a table without the Age column
DropColumn(df, c) ==
    LET cols == Without(df.cols, c)
    IN  DataFrame(cols, [k \in Range(cols) |-> df.dtype[k]],
                  [i \in 1..Len(df.rows) |-> [k \in Range(cols) |-> df.rows[i][k]]])

NoAgeTable == DropColumn(DataFrame(RawCols, RawDtype, <<rA>>), "Age")

\* a table that already carries derived columns, with stale values
StaleTable ==
    DataFrame(RawCols \o <<"BMI", "Age_Group">>,
              [c \in Range(RawCols) \cup {"BMI", "Age_Group"} |->
                  IF c = "Age_Group" THEN "category"
                  ELSE IF c = "BMI" THEN "number" ELSE RawDtype[c]],
              <<[c \in Range(RawCols) \cup {"BMI", "Age_Group"} |->
                  IF c = "Age_Group" THEN "Adult" ELSE IF c = "BMI" THEN 0 ELSE rB[c]]>>)

\* a training table that still carries the label column
LabeledTable ==
    DataFrame(RawCols \o <<TargetColumn>>,
              [c \in Range(RawCols) \cup {TargetColumn} |->
                  IF c = TargetColumn THEN "object" ELSE RawDtype[c]],
              <<[c \in Range(RawCols) \cup {TargetColumn} |->
                  IF c = TargetColumn THEN "Normal_Weight" ELSE rA[c]]>>)

Tables == RawTables \cup {NoAgeTable, StaleTable, LabeledTable}

\* unit of the BMI column: a common multiple of every Height squared
BMIDen == ProdSet({r.Height * r.Height : r \in Records})

\* a numeric column holds integers in units of 1/Unit(column)
Unit(c) == IF c = "BMI" THEN BMIDen ELSE 1

-----------------------------------------------------------------------------
(* Derived features *)

\* Weight / Height ** 2, in units of 1/BMIDen
BMI(w, h) == (w * BMIDen) \div (h * h)

\* pd.cut(Age, bins=[0, 18, 30, 50, 100], labels=[Teen, Young, Adult, Senior]):
\* right-closed intervals, NaN outside (0, 100]
AgeGroup(a) ==
    IF a <= 0 THEN "NaN"
    ELSE IF a <= 18 THEN "Teen"
    ELSE IF a <= 30 THEN "Young"
    ELSE IF a <= 50 THEN "Adult"
    ELSE IF a <= 100 THEN "Senior"
    ELSE "NaN"

\* data["BMI"] = ... ; data["Age_Group"] = ...   (the caller's table is mutated;
\* a missing column raises KeyError at the statement that reads it)
Derive(data) ==
    IF ~(HasColumn(data, "Weight") /\ HasColumn(data, "Height"))
    THEN [data |-> data, err |-> KeyError]
    ELSE LET d1 == SetColumn(data, "BMI", "number",
                       [i \in 1..Len(data.rows) |->
                           BMI(data.rows[i]["Weight"], data.rows[i]["Height"])])
         IN  IF ~HasColumn(d1, "Age")
             THEN [data |-> d1, err |-> KeyError]
             ELSE [data |-> SetColumn(d1, "Age_Group", "category",
                               [i \in 1..Len(d1.rows) |-> AgeGroup(d1.rows[i]["Age"])]),
                   err |-> NoError]

\* Derive, PipelineFit and PipelineTransform are pure functions of tables, so the
\* methods look their results up in tables computed once over the input domain
\* instead of recomputing them at every step.
\* (a table that went through fit or transform is passed on as it was left)
DeriveTable == [data \in Tables \cup {Derive(t).data : t \in Tables} |-> Derive(data)]
Derived(data) == DeriveTable[data]
DerivedTables == {DeriveTable[t].data : t \in {u \in Tables : DeriveTable[u].err = NoError}}

-----------------------------------------------------------------------------
(* scikit-learn: ColumnTransformer([("num", StandardScaler(), numeric_cols),        *)
(*                                  ("cat", OneHotEncoder(handle_unknown="ignore",  *)
(*                                                        sparse_output=False),     *)
(*                                   categorical_cols)])                            *)

\* every category value of the domain in Python's sort order (NaN sorts last)
CategoryOrder == <<"Adult", "Female", "Male", "Senior", "Teen", "Young", "NaN">>

\* OneHotEncoder.fit: categories_ of a column = its sorted distinct values
SortedUnique(vals) == SelectSeq(CategoryOrder, LAMBDA c : c \in Range(vals))

\* StandardScaler.fit on one column whose values are in units of 1/u:
\* mean_ = sum / n, var_ = sum of squares / n - mean_^2 (population variance)
ScalerFit(vals, u) ==
    LET n == Len(vals)
        s == SumSeq(vals)
        q == SumSeq([i \in 1..n |-> vals[i] * vals[i]])
    IN  [mean |-> Frac(s, n * u), var |-> Frac(n * q - s * s, n * n * u * u)]

\* the float cell of sign sgn whose square is p/q
Cell(sgn, p, q) == <<sgn, Frac(p, q)[1], Frac(p, q)[2]>>
One == <<1, 1, 1>>
Zero == <<0, 0, 1>>

\* StandardScaler.transform of one value x (in units of 1/u):
\* (x - mean_) / scale_, where scale_ is sqrt(var_), or 1 for a constant column
ScalerTransform(sc, x, u) ==
    LET d == x * sc.mean[2] - sc.mean[1] * u      \* x - mean_ = d / (u * mean[2])
        m == u * sc.mean[2]
    IN  IF sc.var[1] = 0
        THEN Cell(Sign(d), d * d, m * m)
        ELSE Cell(Sign(d), d * d * sc.var[2], m * m * sc.var[1])

\* mutant: a value outside categories_ is encoded as the first category
OneHotUnknownAsFirst(cats, v) ==
    [j \in 1..Len(cats) |->
        IF v = cats[j] \/ (v \notin Range(cats) /\ j = 1) THEN One ELSE Zero]

\* OneHotEncoder.transform of one value with handle_unknown="ignore":
\* one indicator per fitted category, all zero for a value not in categories_
OneHotTransform(cats, v) == [j \in 1..Len(cats) |-> IF v = cats[j] THEN One ELSE Zero]

\* ColumnTransformer(...) as constructed, before fit
NewColumnTransformer(numeric_cols, categorical_cols) ==
    [st |-> "unfitted", num |-> numeric_cols, cat |-> categorical_cols]

\* ColumnTransformer.fit(data)
ColumnTransformerFit(ct, data) ==
    [st |-> "fitted", num |-> ct.num, cat |-> ct.cat,
     scaler |-> [c \in Range(ct.num) |-> ScalerFit(Column(data, c), Unit(c))],
     categories |-> [c \in Range(ct.cat) |-> SortedUnique(Column(data, c))]]

\* OneHotEncoder.get_feature_names_out(categorical_cols)
FeatureNamesOut(ct) ==
    Flatten([k \in 1..Len(ct.cat) |->
                [j \in 1..Len(ct.categories[ct.cat[k]]) |->
                    ct.cat[k] \o "_" \o ct.categories[ct.cat[k]][j]]])

\* mutant: the "cat" block is stacked before the "num" block
TransformRowCatFirst(ct, row) ==
    Flatten([k \in 1..Len(ct.cat) |->
                OneHotTransform(ct.categories[ct.cat[k]], row[ct.cat[k]])])
    \o [k \in 1..Len(ct.num) |->
           ScalerTransform(ct.scaler[ct.num[k]], row[ct.num[k]], Unit(ct.num[k]))]

\* one output row: the "num" block then the "cat" block, each in fit-time order
TransformRow(ct, row) ==
    [k \in 1..Len(ct.num) |->
        ScalerTransform(ct.scaler[ct.num[k]], row[ct.num[k]], Unit(ct.num[k]))]
    \o Flatten([k \in 1..Len(ct.cat) |->
                   OneHotTransform(ct.categories[ct.cat[k]], row[ct.cat[k]])])

\* an object that is not a ColumnTransformer (it has no transform attribute)
NotAPipeline == [st |-> "other"]

\* self.pipeline.transform(data), self.pipeline being None, an object of another
\* class, an unfitted or a fitted ColumnTransformer; columns are selected by name
PipelineTransform(p, data) ==
    IF p = None \/ p = NotAPipeline THEN [err |-> AttributeError, array |-> <<>>]
    ELSE IF p.st # "fitted" THEN [err |-> SklearnNotFitted, array |-> <<>>]
    ELSE IF ~(Range(p.num) \cup Range(p.cat) \subseteq Range(data.cols))
         THEN [err |-> ValueError, array |-> <<>>]
    ELSE [err |-> NoError,
          array |-> [i \in 1..Len(data.rows) |-> TransformRow(p, data.rows[i])]]

\* the fit of TrainPreprocessor.fit: column lists, ColumnTransformer, pipeline.fit
PipelineFit(data) ==
    LET numeric_cols == Without(NumberColumns(data), TargetColumn)
        categorical_cols == Without(OtherColumns(data), TargetColumn)
    IN  ColumnTransformerFit(NewColumnTransformer(numeric_cols, categorical_cols), data)

PipelineFitTable == [d \in DerivedTables |-> PipelineFit(d)]
\* what self.pipeline can hold: None, a ColumnTransformer constructed and not
\* fitted, or a fitted one
Pipelines ==
    {None, NotAPipeline}
    \cup {PipelineFitTable[d] : d \in DerivedTables}
    \cup {NewColumnTransformer(PipelineFitTable[d].num, PipelineFitTable[d].cat) :
              d \in DerivedTables}
PipelineTransformTable ==
    [p \in Pipelines |-> [d \in DerivedTables |-> PipelineTransform(p, d)]]

\* pd.DataFrame(array, columns=names); names None gives the labels 0..k-1,
\* names of another length raises ValueError
DefaultColumns(k) == [i \in 1..k |-> ToString(i - 1)]

Frame(array, names) ==
    LET k == Len(array[1])
    IN  IF names = None
        THEN [err |-> NoError, out |-> Some([columns |-> DefaultColumns(k), values |-> array])]
        ELSE IF Len(names.val) # k
        THEN [err |-> ValueError, out |-> None]
        ELSE [err |-> NoError, out |-> Some([columns |-> names.val, values |-> array])]

-----------------------------------------------------------------------------
(* BasePreprocessor / TrainPreprocessor / InferencePreprocessor               *)
(* A method is an operator from (self, arguments) to                          *)
(* [self: the object afterwards, data: the caller's table afterwards,         *)
(*  out: the value returned, err: the exception raised].                      *)

\* TrainPreprocessor.__init__
NewTrainPreprocessor ==
    [kind |-> "train", fitted |-> FALSE, pipeline |-> None, feature_names |-> None]

\* InferencePreprocessor.__init__ (preprocessor_path is the one artifact path)
NewInferencePreprocessor ==
    [kind |-> "inference", fitted |-> FALSE, pipeline |-> None]

\* mutant: the guard never raises
CheckFittedNever(self) == FALSE

\* BasePreprocessor._check_fitted: TRUE when it raises
CheckFittedRaises(self) == ~self.fitted

\* mutant: a second fit keeps the feature names of the first
TrainFitKeepNames(self, data) ==
    LET d == Derived(data)
    IN  IF d.err # NoError
        THEN [self |-> self, data |-> d.data, out |-> None, err |-> d.err]
        ELSE
        LET pipeline == PipelineFitTable[d.data]
        IN  [self |-> [self EXCEPT !.pipeline = pipeline,
                                   !.feature_names =
                                       IF self.feature_names # None
                                       THEN self.feature_names
                                       ELSE Some(pipeline.num \o FeatureNamesOut(pipeline)),
                                   !.fitted = TRUE],
             data |-> d.data, out |-> None, err |-> NoError]

\* TrainPreprocessor.fit
TrainFit(self, data) ==
    LET d == Derived(data)
    IN  IF d.err # NoError
        THEN [self |-> self, data |-> d.data, out |-> None, err |-> d.err]
        ELSE
        LET pipeline == PipelineFitTable[d.data]
        IN  [self |-> [self EXCEPT !.pipeline = pipeline,
                                   !.feature_names =
                                       Some(pipeline.num \o FeatureNamesOut(pipeline)),
                                   !.fitted = TRUE],
             data |-> d.data, out |-> None, err |-> NoError]

\* mutant: transform refits the pipeline on the table it is given (fit_transform)
TrainFitTransform(self, data) ==
    IF CheckFittedRaises(self)
    THEN [self |-> self, data |-> data, out |-> None, err |-> NotFittedError]
    ELSE
    LET f == TrainFit(self, data)
    IN  IF f.err # NoError THEN f
        ELSE LET t == PipelineTransformTable[f.self.pipeline][f.data]
             IN  [self |-> f.self, data |-> f.data,
                  out |-> Frame(t.array, f.self.feature_names).out, err |-> NoError]

\* TrainPreprocessor.transform
TrainTransform(self, data) ==
    IF CheckFittedRaises(self)
    THEN [self |-> self, data |-> data, out |-> None, err |-> NotFittedError]
    ELSE
    LET d == Derived(data)
    IN  IF d.err # NoError
        THEN [self |-> self, data |-> d.data, out |-> None, err |-> d.err]
        ELSE
        LET t == PipelineTransformTable[self.pipeline][d.data]
        IN  IF t.err # NoError
            THEN [self |-> self, data |-> d.data, out |-> None, err |-> t.err]
            ELSE LET f == Frame(t.array, self.feature_names)
                 IN  [self |-> self, data |-> d.data, out |-> f.out, err |-> f.err]

\* mutant: save writes an unfitted clone of the pipeline
TrainSaveClone(self) ==
    IF self.pipeline = None THEN None
    ELSE NewColumnTransformer(self.pipeline.num, self.pipeline.cat)

\* what TrainPreprocessor.save writes: joblib.dump(self.pipeline, path)
TrainSaveContent(self) == self.pipeline

\* mutant: load derives the flag from what it loaded
TrainLoadFlagFromObject(self, obj) ==
    [self EXCEPT !.pipeline = obj, !.fitted = (obj # None)]

\* TrainPreprocessor.load, the file holding obj
TrainLoad(self, obj) == [self EXCEPT !.pipeline = obj, !.fitted = TRUE]

\* InferencePreprocessor.fit: logs a warning, nothing else
InferenceFit(self, data) == [self |-> self, data |-> data, out |-> None, err |-> NoError]

\* mutant: transform sorts the caller's table, last row first
InferenceTransformReversed(self, data) ==
    IF CheckFittedRaises(self)
    THEN [self |-> self, data |-> data, out |-> None, err |-> NotFittedError]
    ELSE
    LET d == Derived(DataFrame(data.cols, data.dtype,
                               [i \in 1..Len(data.rows) |->
                                   data.rows[Len(data.rows) + 1 - i]]))
    IN  IF d.err # NoError
        THEN [self |-> self, data |-> d.data, out |-> None, err |-> d.err]
        ELSE
        LET t == PipelineTransformTable[self.pipeline][d.data]
        IN  IF t.err # NoError
            THEN [self |-> self, data |-> d.data, out |-> None, err |-> t.err]
            ELSE LET f == Frame(t.array, None)
                 IN  [self |-> self, data |-> d.data, out |-> f.out, err |-> f.err]

\* InferencePreprocessor.transform
InferenceTransform(self, data) ==
    IF CheckFittedRaises(self)
    THEN [self |-> self, data |-> data, out |-> None, err |-> NotFittedError]
    ELSE
    LET d == Derived(data)
    IN  IF d.err # NoError
        THEN [self |-> self, data |-> d.data, out |-> None, err |-> d.err]
        ELSE
        LET t == PipelineTransformTable[self.pipeline][d.data]
        IN  IF t.err # NoError
            THEN [self |-> self, data |-> d.data, out |-> None, err |-> t.err]
            ELSE LET f == Frame(t.array, None)
                 IN  [self |-> self, data |-> d.data, out |-> f.out, err |-> f.err]

\* InferencePreprocessor.load, the file holding obj
InferenceLoad(self, obj) == [self EXCEPT !.pipeline = obj, !.fitted = TRUE]

\* dispatch on the class of the object
Transform(self, data) ==
    IF self.kind = "train" THEN TrainTransform(self, data) ELSE InferenceTransform(self, data)

Load(self, obj) ==
    IF self.kind = "train" THEN TrainLoad(self, obj) ELSE InferenceLoad(self, obj)

-----------------------------------------------------------------------------
(* The artifact file *)

NoFile == [exists |-> FALSE]
\* a file holding the complete pickle of obj
File(obj) == [exists |-> TRUE, pickle |-> TRUE, obj |-> obj]
\* a file whose bytes are not a complete pickle; raises: the exception class
\* the unpickler raises on these bytes
Malformed(raises) == [exists |-> TRUE, pickle |-> FALSE, raises |-> raises]

\* the exception classes joblib.load raises on bytes that are not a complete
\* pickle.  Besides the unpickler's own: a length field that asks for more memory
\* than there is raises MemoryError; a file that begins like a compressed one
\* goes to the decompressor, which raises zlib.error or OSError; and a reduce
\* call raises whatever the callable the bytes name raises: ZeroDivisionError,
\* OverflowError, LookupError, FileNotFoundError, or any other class (Exception
\* stands for the rest)
UnpicklingErrors ==
    {EOFError, KeyError, StructError, IndexError, UnpicklingError, ValueError,
     ModuleNotFoundError, AttributeError, TypeError, "MemoryError", "zlib.error", OSError,
     "ZeroDivisionError", "OverflowError", "LookupError", FileNotFoundError, "Exception"}
\* those it raises on the first bytes of a joblib dump, the rest missing
TruncationErrors == {EOFError, StructError, IndexError, UnpicklingError, ValueError}

\* what a write that failed left at its path: the file as it was (open() raised),
\* or the first bytes of the dump, named by what the unpickler raises on them
Leavings == {"intact"} \cup TruncationErrors

\* the files after the write to path failed leaving left
CutFile(fs, path, left) ==
    IF left = "intact" THEN fs ELSE [fs EXCEPT ![path] = Malformed(left)]

\* joblib.load(path): [err, obj]
JoblibLoad(file) ==
    IF ~file.exists THEN [err |-> FileNotFoundError, obj |-> None]
    ELSE IF ~file.pickle THEN [err |-> file.raises, obj |-> None]
    ELSE [err |-> NoError, obj |-> file.obj]

-----------------------------------------------------------------------------
(* Preprocessor life cycle: T is the TrainPreprocessor of a training run,    *)
(* R a second preprocessor (a TrainPreprocessor or an InferencePreprocessor) *)
(* that only ever loads the artifact and transforms.                         *)

Ids == {"T", "R"}

InitPre ==
    /\ pre \in {[T |-> NewTrainPreprocessor, R |-> r] :
                    r \in {NewTrainPreprocessor, NewInferencePreprocessor}}
    /\ disk = NoFile
    /\ op = "new" /\ who = "T" /\ arg = None /\ out = None /\ err = NoError

Returned(name, id, r) ==
    /\ pre' = [pre EXCEPT ![id] = r.self]
    /\ op' = name /\ who' = id
    /\ arg' = Some(r.data) /\ out' = r.out /\ err' = r.err

\* T.fit(data)
Fit ==
    \E data \in Tables :
        /\ Returned("fit", "T", TrainFit(pre["T"], data))
        /\ UNCHANGED <<disk, cmpVars, pipeVars, apiVars, extVars>>

\* R.fit(data), R an InferencePreprocessor
FitInference ==
    \E data \in Tables :
        /\ pre["R"].kind = "inference"
        /\ Returned("fit", "R", InferenceFit(pre["R"], data))
        /\ UNCHANGED <<disk, cmpVars, pipeVars, apiVars, extVars>>

\* x.transform(data)
DoTransform ==
    \E id \in Ids, data \in Tables :
        /\ Returned("transform", id, Transform(pre[id], data))
        /\ UNCHANGED <<disk, cmpVars, pipeVars, apiVars, extVars>>

\* T.save(path)
Save ==
    /\ disk' = File(TrainSaveContent(pre["T"]))
    /\ op' = "save" /\ who' = "T" /\ out' = None /\ err' = NoError
    /\ UNCHANGED <<pre, arg, cmpVars, pipeVars, apiVars, extVars>>

\* T.save(path) raised: open() failed and the path is as it was, or the write
\* stopped part-way; joblib.dump opens the destination itself for writing, so the
\* path then holds the bytes written so far
SaveInterrupted ==
    /\ \E left \in Leavings : disk' = CutFile([path |-> disk], "path", left).path
    /\ op' = "save interrupted" /\ who' = "T" /\ out' = None /\ err' = OSError
    /\ UNCHANGED <<pre, arg, cmpVars, pipeVars, apiVars, extVars>>

\* R.save(path), R an InferencePreprocessor: logs a warning, nothing else
SaveInference ==
    /\ pre["R"].kind = "inference"
    /\ op' = "save" /\ who' = "R" /\ out' = None /\ err' = NoError
    /\ UNCHANGED <<pre, disk, arg, cmpVars, pipeVars, apiVars, extVars>>

\* x.load(path): when joblib.load raises, nothing has been assigned yet
DoLoad ==
    \E id \in Ids :
        LET l == JoblibLoad(disk)
        IN  /\ IF l.err = NoError
               THEN pre' = [pre EXCEPT ![id] = Load(pre[id], l.obj)]
               ELSE pre' = pre
            /\ err' = l.err
            /\ op' = "load" /\ who' = id /\ out' = None
        /\ UNCHANGED <<disk, arg, cmpVars, pipeVars, apiVars, extVars>>

\* the artifact path comes to hold something save() did not write: bytes that
\* are no pickle, or the pickle of an object of another class
Overwrite ==
    \E f \in {Malformed(raises) : raises \in UnpicklingErrors} \cup {File(NotAPipeline)} :
        /\ disk' = f
        /\ op' = "overwrite" /\ who' = "T" /\ out' = None /\ err' = NoError
        /\ UNCHANGED <<pre, arg, cmpVars, pipeVars, apiVars, extVars>>

NextPre ==
    Fit \/ FitInference \/ DoTransform \/ Save \/ SaveInterrupted \/ SaveInference \/ DoLoad \/ Overwrite

-----------------------------------------------------------------------------
(* ModelComparator                                                           *)
(* A dict is a sequence of [name, val] entries in insertion order.  A        *)
(* trainer is opaque: train, predict and evaluate yield the metrics it       *)
(* reaches in this call, here its f1_score, drawn from 0..MaxF1.             *)

TrainerNames == {"A", "B", "C"}

Keys(d) == {d[i].name : i \in 1..Len(d)}

\* d[k], for k a key of d
Get(d, k) == d[CHOOSE i \in 1..Len(d) : d[i].name = k].val

\* d[k] = v : an existing key keeps its position, a new key goes last
DictSet(d, k, v) ==
    IF k \in Keys(d)
    THEN [i \in 1..Len(d) |-> IF d[i].name = k THEN [name |-> k, val |-> v] ELSE d[i]]
    ELSE Append(d, [name |-> k, val |-> v])

\* the ordered mappings name -> f1_score over the trainer names
Mappings ==
    {m \in UNION {[1..n -> [name : TrainerNames, val : [f1_score : 0..MaxF1]]] :
                      n \in 0..Cardinality(TrainerNames)} :
        \A i, j \in 1..Len(m) : m[i].name = m[j].name => i = j}

\* the for loop of compare: self.results[name] = metrics, in trainers order
RECURSIVE UpdateResults(_, _)
UpdateResults(res, trainers) ==
    IF trainers = <<>> THEN res
    ELSE UpdateResults(DictSet(res, Head(trainers).name, Head(trainers).val),
                       Tail(trainers))

\* max(d, key=lambda k: d[k]["f1_score"]): the first key, in d's order, of
\* maximal f1_score
MaxKey(d) ==
    LET best == CHOOSE i \in 1..Len(d) :
                    /\ \A j \in 1..Len(d) : d[j].val.f1_score <= d[i].val.f1_score
                    /\ \A j \in 1..(i - 1) : d[j].val.f1_score < d[i].val.f1_score
    IN  d[best].name

\* ModelComparator.compare: [results: self.results afterwards, ret, err]
CompareCall(res, trainers) ==
    LET r == UpdateResults(res, trainers)
    IN  IF r = <<>>
        THEN [results |-> r, ret |-> None, err |-> ValueError]
        ELSE [results |-> r,
              ret |-> Some([name |-> MaxKey(r), metrics |-> Get(r, MaxKey(r))]),
              err |-> NoError]

\* ModelComparator.__init__: self.results = {}
InitCmp == results = <<>> /\ cmp = None

\* comparator.compare(trainers, ...)
Compare ==
    \E trainers \in Mappings :
        LET c == CompareCall(results, trainers)
        IN  /\ results' = c.results
            /\ cmp' = Some([trainers |-> trainers, ret |-> c.ret, err |-> c.err])
            /\ UNCHANGED <<preVars, pipeVars, apiVars, extVars>>

-----------------------------------------------------------------------------
(* ModelEvaluator.  Metrics are exact: a score is the fraction <<p, q>> in     *)
(* lowest terms.  sklearn's weighted average of a per-class score weighs each *)
(* class by its support (the number of rows of y_true of that class); a score *)
(* whose denominator is zero counts as 0 (zero_division default).             *)

MaxEval == 3        \* longest y_true / y_pred passed to evaluate

EvalLabels == {0, 1, 2}

\* the pairs (y_true, y_pred) of equal length
EvalInputs ==
    UNION {{[y_true |-> t, y_pred |-> q] : t, q \in [1..n -> EvalLabels]} : n \in 1..MaxEval}

AddFrac(a, b) == Frac(a[1] * b[2] + b[1] * a[2], a[2] * b[2])

\* the elements of a set of integers in increasing order
RECURSIVE Sorted(_)
Sorted(S) ==
    IF S = {} THEN <<>>
    ELSE LET m == CHOOSE x \in S : \A y \in S : x <= y IN <<m>> \o Sorted(S \ {m})

\* sklearn unique_labels(y_true, y_pred)
UniqueLabels(y_true, y_pred) == Sorted(Range(y_true) \cup Range(y_pred))

TruePositives(y_true, y_pred, l) ==
    Cardinality({i \in 1..Len(y_true) : y_true[i] = l /\ y_pred[i] = l})
\* the number of rows of class l
Support(y, l) == Cardinality({i \in 1..Len(y) : y[i] = l})

\* p / q, 0 when q = 0
Score(p, q) == IF q = 0 THEN <<0, 1>> ELSE Frac(p, q)

\* the per-class scores of class l
ClassPrecision(y_true, y_pred, l) ==
    Score(TruePositives(y_true, y_pred, l), Support(y_pred, l))
ClassRecall(y_true, y_pred, l) ==
    Score(TruePositives(y_true, y_pred, l), Support(y_true, l))
ClassF1(y_true, y_pred, l) ==
    Score(2 * TruePositives(y_true, y_pred, l), Support(y_true, l) + Support(y_pred, l))

\* average="weighted": sum over the classes of support * score, over the row
\* count; score maps a class to its score
RECURSIVE WeightedSum(_, _, _)
WeightedSum(labels, y_true, score) ==
    IF labels = <<>> THEN <<0, 1>>
    ELSE AddFrac(Frac(Support(y_true, Head(labels)) * score[Head(labels)][1],
                      score[Head(labels)][2]),
                 WeightedSum(Tail(labels), y_true, score))

Weighted(y_true, y_pred, score) ==
    LET w == WeightedSum(UniqueLabels(y_true, y_pred), y_true, score)
    IN  Frac(w[1], w[2] * Len(y_true))

\* the classes of a call of evaluate
Classes(y_true, y_pred) == Range(y_true) \cup Range(y_pred)

\* accuracy_score: the share of positions where y_true equals y_pred
AccuracyScore(y_true, y_pred) ==
    Frac(Cardinality({i \in 1..Len(y_true) : y_true[i] = y_pred[i]}), Len(y_true))

\* confusion_matrix(y_true, y_pred): rows are true classes, columns predicted
\* classes, both in the order of unique_labels
ConfusionMatrix(y_true, y_pred) ==
    LET labels == UniqueLabels(y_true, y_pred)
    IN  [i \in 1..Len(labels) |->
            [j \in 1..Len(labels) |->
                Cardinality({k \in 1..Len(y_true) :
                                y_true[k] = labels[i] /\ y_pred[k] = labels[j]})]]

\* ModelEvaluator.evaluate: ret is the dict returned, logged the confusion
\* matrix written to the log
Evaluate(y_true, y_pred) ==
    [ret |-> [accuracy |-> AccuracyScore(y_true, y_pred),
              precision |-> Weighted(y_true, y_pred,
                                     [l \in Classes(y_true, y_pred) |->
                                         ClassPrecision(y_true, y_pred, l)]),
              recall |-> Weighted(y_true, y_pred,
                                  [l \in Classes(y_true, y_pred) |->
                                      ClassRecall(y_true, y_pred, l)]),
              f1_score |-> Weighted(y_true, y_pred,
                                    [l \in Classes(y_true, y_pred) |->
                                        ClassF1(y_true, y_pred, l)])],
     logged |-> ConfusionMatrix(y_true, y_pred)]

-----------------------------------------------------------------------------
(* Trainers: XGBoostTrainer, CatBoostTrainer, LightGBMTrainer                 *)
(* The library classifier a trainer holds is [backend, fitted]; once fitted   *)
(* it is a decision stump over the features it was fitted on: the feature     *)
(* names, the split column and the class predicted above the split.  The     *)
(* split is on the first feature; which class lies above it is left open.     *)
(* made_with is history: the transformation pipeline that produced the        *)
(* training features.                                                         *)

Backends == {"XGBoost", "CatBoost", "LightGBM"}
Labels == {0, 1}

CatBoostError == "CatBoostError"
XGBoostError == "XGBoostError"
LightGBMError == "LightGBMError"

\* the exception class a backend raises for a failed library call
LibraryError(b, other) == IF b = "CatBoost" THEN CatBoostError ELSE other

\* raised by the library's predict on a classifier never fitted: the
\* not-trained error of the backend
NotTrainedError(b) == LibraryError(b, SklearnNotFitted)

\* backends whose predict checks the column names of a DataFrame against the
\* names seen at fit time
ValidatesNames(b) == b \in {"XGBoost", "CatBoost"}

\* xgb.XGBClassifier(**params) / CatBoostClassifier(**params) / lgb.LGBMClassifier(**params)
NewEstimator(b) == [backend |-> b, fitted |-> FALSE]

\* whether fit of the installed library takes the keyword verbose, which train
\* passes: xgboost and catboost do, lightgbm does up to 3.x and not from 4.0 on
\* (no version is pinned)
FitTakesVerbose(b) == IF b = "LightGBM" THEN BOOLEAN ELSE {TRUE}

\* XGBoostTrainer.__init__ (and the two others); fit_verbose: the installed
\* library's fit takes the keyword verbose
NewTrainer(b, fit_verbose) ==
    [model_name |-> b, model |-> NewEstimator(b), fit_verbose |-> fit_verbose]

\* the trainers that can be constructed
NewTrainers == UNION {{NewTrainer(b, v) : v \in FitTakesVerbose(b)} : b \in Backends}

\* the columns a fitted stump can split on
SplitColumns(X) == {1}

\* self.model.fit(X_train, y_train, ...), the fit yielding the stump (col, hi)
EstimatorFit(m, X, col, hi, made_with) ==
    [backend |-> m.backend, fitted |-> TRUE, names |-> X.columns,
     col |-> col, hi |-> hi, made_with |-> made_with]

\* the class a fitted classifier predicts for one row of features
Classify(m, row) == IF row[m.col][1] > 0 THEN m.hi ELSE 1 - m.hi

\* mutant: a classifier never fitted predicts class 0 for every row
EstimatorPredictDefault(m, X) ==
    IF ~m.fitted
    THEN [err |-> NoError, out |-> Some([i \in 1..Len(X.values) |-> 0])]
    ELSE [err |-> NoError, out |-> Some([i \in 1..Len(X.values) |-> Classify(m, X.values[i])])]

\* self.model.predict(X): [err, out]
EstimatorPredict(m, X) ==
    IF ~m.fitted THEN [err |-> NotTrainedError(m.backend), out |-> None]
    ELSE IF Len(X.columns) # Len(m.names)
         THEN [err |-> LibraryError(m.backend, ValueError), out |-> None]
    ELSE IF ValidatesNames(m.backend) /\ X.columns # m.names
         THEN [err |-> LibraryError(m.backend, ValueError), out |-> None]
    ELSE [err |-> NoError,
          out |-> Some([i \in 1..Len(X.values) |-> Classify(m, X.values[i])])]

\* lgb.Booster(model_file=path): the trained model without the classifier
\* around it
Booster(m) ==
    [backend |-> m.backend, fitted |-> TRUE, names |-> m.names, col |-> m.col,
     hi |-> m.hi, made_with |-> m.made_with, booster |-> TRUE]

\* self.model is an lgb.Booster, not the classifier __init__ built
IsBooster(m) == "booster" \in DOMAIN m

\* Booster.predict(X): one score per class for every row, not a label; the
\* column names are not compared, the column count is
BoosterPredict(m, X) ==
    IF Len(X.columns) # Len(m.names) THEN [err |-> LightGBMError, out |-> None]
    ELSE [err |-> NoError,
          out |-> Some([i \in 1..Len(X.values) |->
                           [l \in Labels |->
                               IF l = Classify(m, X.values[i]) THEN 1 ELSE 0]])]

\* XGBoostTrainer.train: fits self.model in place and returns it
TrainerTrain(self, X, col, hi, made_with) ==
    [self EXCEPT !.model = EstimatorFit(self.model, X, col, hi, made_with)]

\* what self.model.fit(X_train, y_train, eval_set=..., verbose=False) raises: an
\* lgb.Booster has no fit; a fit without the keyword verbose rejects the call
TrainerTrainError(self) ==
    IF IsBooster(self.model) THEN AttributeError
    ELSE IF ~self.fit_verbose THEN TypeError ELSE NoError

\* an XGBClassifier whose load_model raised before any fit: load_model gives
\* a classifier without a booster a new, empty one before it reads the file, so
\* the classifier passes the library's fitted check and holds no model
EmptyBooster == [backend |-> "XGBoost", fitted |-> FALSE, empty |-> TRUE]
HasEmptyBooster(m) == "empty" \in DOMAIN m

\* XGBoostTrainer.predict: self.model.predict(X)
TrainerPredict(self, X) ==
    IF IsBooster(self.model) THEN BoosterPredict(self.model, X)
    ELSE IF HasEmptyBooster(self.model) THEN [err |-> XGBoostError, out |-> None]
    ELSE EstimatorPredict(self.model, X)

\* the exception class a backend raises when it cannot read a model file
NativeError(b) ==
    IF b = "XGBoost" THEN XGBoostError
    ELSE IF b = "CatBoost" THEN CatBoostError ELSE LightGBMError

\* a file a backend wrote with save_model: the library's own format, not a
\* pickle; raises: the exception class the unpickler raises on its bytes
NativeFile(m, raises) ==
    [exists |-> TRUE, pickle |-> FALSE, raises |-> raises, native |-> m.backend, obj |-> m]

\* the file is a model file of backend b
IsNative(file, b) == file.exists /\ "native" \in DOMAIN file /\ file.native = b

\* XGBoostTrainer.save(path): self.model.save_model(path)
\* LightGBMTrainer.save(path): self.model.booster_.save_model(path)
\* [files, err]
TrainerSave(self, fs, path, raises) ==
    IF IsBooster(self.model) THEN [files |-> fs, err |-> AttributeError]
    ELSE IF ~self.model.fitted /\ ~HasEmptyBooster(self.model)
         THEN [files |-> fs, err |-> NotTrainedError(self.model_name)]
    ELSE [files |-> [fs EXCEPT ![path] = NativeFile(self.model, raises)], err |-> NoError]

\* XGBoostTrainer.load(path): self.model.load_model(path)
\* LightGBMTrainer.load(path): self.model = lgb.Booster(model_file=path)
\* [self, err]
TrainerLoad(self, fs, path) ==
    IF ~IsNative(fs[path], self.model_name)
    THEN [self |-> IF self.model = NewEstimator("XGBoost")
                   THEN [self EXCEPT !.model = EmptyBooster] ELSE self,
          err |-> NativeError(self.model_name)]
    ELSE IF self.model_name = "LightGBM"
         THEN [self |-> [self EXCEPT !.model = Booster(fs[path].obj)], err |-> NoError]
    ELSE [self |-> [self EXCEPT !.model = fs[path].obj], err |-> NoError]

-----------------------------------------------------------------------------
(* TrainingPipeline and InferencePipeline for one model name: the trainer of  *)
(* that name, its two artifact files <name>_model.joblib and                  *)
(* <name>_preprocessor.joblib, and one InferencePipeline built on those paths *)

Table(rows) == DataFrame(RawCols, RawDtype, rows)

\* what split_data hands to the pipeline: X_train and X_valid (the label column
\* already dropped), or a table lacking a raw column
SplitTrain == {Table(<<rA, rB>>), Table(<<rB>>), NoAgeTable}
SplitValid == {Table(<<rA>>)}

\* the transformed splits, once both transform calls have returned
Splits(preprocessor, t, v) ==
    IF t.err # NoError THEN [err |-> t.err]
    ELSE IF v.err # NoError THEN [err |-> v.err]
    ELSE [err |-> NoError, preprocessor |-> preprocessor,
          X_train_t |-> t.out.val, X_valid_t |-> v.out.val]

\* preprocessor.transform(X_train); preprocessor.transform(X_valid), after fit
\* returned f (X_train is passed on as fit left it)
TransformSplits(f, X_valid) ==
    IF f.err # NoError THEN [err |-> f.err]
    ELSE Splits(f.self, TrainTransform(f.self, f.data), TrainTransform(f.self, X_valid))

\* TrainingPipeline.run up to the training step: fit, transform of both splits
Preprocess(X_train, X_valid) ==
    TransformSplits(TrainFit(NewTrainPreprocessor, X_train), X_valid)

\* Preprocess is a pure function of the two splits: the runs look its result up
\* in a table computed once
PreprocessTable ==
    [x \in SplitTrain \X SplitValid |-> Preprocess(x[1], x[2])]
Preprocessed(X_train, X_valid) == PreprocessTable[<<X_train, X_valid>>]

\* where a run that got as far as its first write ends: it returns its metrics;
\* joblib.dump(model, model_path) raises ("dump"); preprocessor.save(preproc_path)
\* raises with the model file written ("save"); or setup_mlflow() /
\* log_to_mlflow() raises after both writes because the tracking server cannot be
\* reached ("mlflow").  left: what the failed write left at its path
Returns == [at |-> "returns", left |-> "intact"]
RunStops ==
    {Returns, [at |-> "mlflow", left |-> "intact"]}
        \cup {[at |-> a, left |-> l] : a \in {"dump", "save"}, l \in Leavings}

\* setup_mlflow() and BaseTrainer.log_to_mlflow(metrics, artifacts): they change
\* nothing the program reads back; reached is whether the tracking server answers
LogToMlflow(reached) == IF reached THEN NoError ELSE MlflowException

\* TrainingPipeline.run from the training step on: train, predict on the
\* validation split, joblib.dump(model, model_path), preprocessor.save(preproc_path),
\* setup_mlflow(), trainer.log_to_mlflow(...); stop: where the run ends
Artifacts(self, fs, p, col, hi, stop) ==
    IF TrainerTrainError(self) # NoError
    THEN [trainer |-> self, files |-> fs, err |-> TrainerTrainError(self)]
    ELSE
    LET t == TrainerTrain(self, p.X_train_t, col, hi, p.preprocessor.pipeline)
        preds == TrainerPredict(t, p.X_valid_t)
    IN  IF preds.err # NoError
        THEN [trainer |-> t, files |-> fs, err |-> preds.err]
        ELSE IF stop.at = "dump"
        THEN [trainer |-> t, files |-> CutFile(fs, "model", stop.left), err |-> OSError]
        ELSE IF stop.at = "save"
        THEN [trainer |-> t,
              files |-> CutFile([fs EXCEPT !.model = File(t.model)], "preprocessor",
                                stop.left),
              err |-> OSError]
        ELSE [trainer |-> t,
              files |-> [fs EXCEPT !.model = File(t.model),
                                   !.preprocessor = File(TrainSaveContent(p.preprocessor))],
              err |-> LogToMlflow(stop.at # "mlflow")]

\* InferencePipeline.__init__
NewInferencePipeline == [model |-> None, preprocessor |-> None]

\* InferencePipeline.load: [self, err]
PipelineLoad(self, fs) ==
    LET m == JoblibLoad(fs.model)
    IN  IF m.err # NoError THEN [self |-> self, err |-> m.err]
        ELSE
        LET p == JoblibLoad(fs.preprocessor)
        IN  IF p.err # NoError
            THEN [self |-> [model |-> Some(m.obj),
                            preprocessor |-> Some(NewInferencePreprocessor)],
                  err |-> p.err]
            ELSE [self |-> [model |-> Some(m.obj),
                            preprocessor |->
                                Some(InferenceLoad(NewInferencePreprocessor, p.obj))],
                  err |-> NoError]

\* self.model.predict(transformed)
ModelPredict(model, X) == EstimatorPredict(model, X)

\* return {"predictions": preds.tolist()}, or the exception of model.predict
Respond(l, n, preds) ==
    IF preds.err # NoError
    THEN [self |-> l.self, out |-> None, err |-> preds.err, loads |-> n,
          load_err |-> NoError]
    ELSE [self |-> l.self, out |-> Some([predictions |-> preds.out.val]),
          err |-> NoError, loads |-> n, load_err |-> NoError]

\* preds = self.model.predict(transformed), t being what transform returned
PredictTransformed(l, n, t) ==
    IF t.err # NoError
    THEN [self |-> l.self, out |-> None, err |-> t.err, loads |-> n, load_err |-> NoError]
    ELSE Respond(l, n, ModelPredict(l.self.model.val, t.out.val))

\* transformed = self.preprocessor.transform(input_data), l being the outcome of
\* the n calls of self.load() this predict made
TransformLoaded(l, n, input_data) ==
    IF l.err # NoError
    THEN [self |-> l.self, out |-> None, err |-> l.err, loads |-> n, load_err |-> l.err]
    ELSE PredictTransformed(l, n, InferenceTransform(l.self.preprocessor.val, input_data))

\* InferencePipeline.predict: [self, out, err, loads, load_err]
\* loads: how many times self.load() ran; load_err: what it raised
PipelinePredict(self, fs, input_data) ==
    TransformLoaded(IF self.model = None \/ self.preprocessor = None
                    THEN PipelineLoad(self, fs)
                    ELSE [self |-> self, err |-> NoError],
                    IF self.model = None \/ self.preprocessor = None THEN 1 ELSE 0,
                    input_data)

\* the feature tables a trainer can be handed: transformed splits
FeatureFrames ==
    UNION {{Preprocessed(X, V).X_train_t, Preprocessed(X, V).X_valid_t} :
              X \in {Y \in SplitTrain : Derived(Y).err = NoError}, V \in SplitValid}

Called(name, a, o, e, n, le) ==
    last' = [op |-> name, arg |-> a, out |-> o, err |-> e, loads |-> n, load_err |-> le,
             loaded |-> last.loaded \/ (n > 0 /\ le = NoError)]

\* the paths a trainer is saved to and loaded from: of all paths, the one the
\* pipelines read and write a model at, <name>_model.joblib
TrainerPaths == {"model"}

InitPipe ==
    /\ trainer \in NewTrainers
    /\ files = [model |-> NoFile, preprocessor |-> NoFile]
    /\ ip = NewInferencePipeline
    /\ last = [op |-> "new", arg |-> None, out |-> None, err |-> NoError, loads |-> 0,
               load_err |-> NoError, loaded |-> FALSE]

\* y_valid of the split: a label per row of X_valid
SplitLabels(X_valid) == [1..Len(X_valid.rows) -> Labels]

\* evaluate(y_valid, preds) is a pure function of the two vectors: the runs look
\* its result up in a table computed once
MetricsTable ==
    [y \in UNION {SplitLabels(v) \X SplitLabels(v) : v \in SplitValid} |->
        Evaluate(y[1], y[2]).ret]

\* return metrics: what run() returns when it left a, the metrics of the
\* evaluator for the predictions on the validation split
RunReturn(a, p, y_valid) ==
    IF a.err # NoError THEN None
    ELSE Some(MetricsTable[<<y_valid, TrainerPredict(a.trainer, p.X_valid_t).out.val>>])

\* the run left a: what it wrote, and what it returned or raised
Wrote(a, p, y_valid) ==
    /\ trainer' = a.trainer
    /\ files' = a.files
    /\ Called("run", None, RunReturn(a, p, y_valid), a.err, 0, NoError)

\* the rest of run() after the preprocessing step gave p
Ran(p, stop, y_valid) ==
    IF p.err # NoError
    THEN /\ stop = Returns
         /\ Called("run", None, None, p.err, 0, NoError)
         /\ UNCHANGED <<trainer, files>>
    ELSE \E col \in SplitColumns(p.X_train_t), hi \in Labels :
             Wrote(Artifacts(trainer, files, p, col, hi, stop), p, y_valid)

\* TrainingPipeline(trainer).run()
RunTraining ==
    \E X_train \in SplitTrain, X_valid \in SplitValid, stop \in RunStops :
        \* the labels reach nothing but the metrics returned
        \E y_valid \in IF stop = Returns THEN SplitLabels(X_valid)
                        ELSE {[i \in 1..Len(X_valid.rows) |-> 0]} :
        /\ Ran(Preprocessed(X_train, X_valid), stop, y_valid)
        /\ UNCHANGED <<ip, preVars, cmpVars, apiVars, extVars>>

\* trainer.predict(X)
PredictTrainer ==
    \E X \in FeatureFrames :
        LET r == TrainerPredict(trainer, X)
        IN  /\ Called("trainer.predict", Some(X), r.out, r.err, 0, NoError)
            /\ UNCHANGED <<trainer, files, ip, preVars, cmpVars, apiVars, extVars>>

\* trainer.train(X_train_t, y_train, X_valid_t, y_valid) on the transformed
\* splits p
Trained(p, hi) ==
    /\ trainer' = IF TrainerTrainError(trainer) # NoError THEN trainer
                  ELSE TrainerTrain(trainer, p.X_train_t, 1, hi, p.preprocessor.pipeline)
    /\ Called("trainer.train", Some(p.X_train_t),
              IF TrainerTrainError(trainer) # NoError THEN None
              ELSE Some(TrainerTrain(trainer, p.X_train_t, 1, hi,
                                     p.preprocessor.pipeline).model),
              TrainerTrainError(trainer), 0, NoError)

TrainTrainer ==
    \E X_train \in {Y \in SplitTrain : Derived(Y).err = NoError}, X_valid \in SplitValid,
       hi \in Labels :
        /\ Trained(Preprocessed(X_train, X_valid), hi)
        /\ UNCHANGED <<files, ip, preVars, cmpVars, apiVars, extVars>>

\* trainer.save(path)
SaveTrainer ==
    \E path \in TrainerPaths, raises \in UnpicklingErrors :
        /\ files' = TrainerSave(trainer, files, path, raises).files
        /\ Called("trainer.save", Some(path), None,
                  TrainerSave(trainer, files, path, raises).err, 0, NoError)
        /\ UNCHANGED <<trainer, ip, preVars, cmpVars, apiVars, extVars>>

\* trainer.load(path)
LoadTrainer ==
    \E path \in TrainerPaths :
        /\ trainer' = TrainerLoad(trainer, files, path).self
        /\ Called("trainer.load", Some(path), None,
                  TrainerLoad(trainer, files, path).err, 0, NoError)
        /\ UNCHANGED <<files, ip, preVars, cmpVars, apiVars, extVars>>

\* TrainPreprocessor().save(preproc_path): a preprocessor never fitted is saved
SaveNeverFitted ==
    /\ files' = [files EXCEPT !.preprocessor = File(TrainSaveContent(NewTrainPreprocessor))]
    /\ Called("save", None, None, NoError, 0, NoError)
    /\ UNCHANGED <<trainer, ip, preVars, cmpVars, apiVars, extVars>>

\* a call on the pipeline returned r
Answered(name, a, r) ==
    /\ ip' = r.self
    /\ Called(name, a, r.out, r.err, r.loads, r.load_err)

\* pipeline.load()
LoadPipeline ==
    /\ Answered("load", None, [self |-> PipelineLoad(ip, files).self, out |-> None,
                               err |-> PipelineLoad(ip, files).err, loads |-> 1,
                               load_err |-> PipelineLoad(ip, files).err])
    /\ UNCHANGED <<trainer, files, preVars, cmpVars, apiVars, extVars>>

\* the tables handed to pipeline.predict: two rows, one row, a column missing
PredictInputs == {Table(<<rA, rB>>), Table(<<rB>>), NoAgeTable}

\* pipeline.predict(input_data)
PredictPipeline ==
    \E input_data \in PredictInputs :
        /\ Answered("predict", Some(input_data), PipelinePredict(ip, files, input_data))
        /\ UNCHANGED <<trainer, files, preVars, cmpVars, apiVars, extVars>>

\* the training runs and the InferencePipeline on their artifacts
NextPipe == RunTraining \/ SaveNeverFitted \/ LoadPipeline \/ PredictPipeline

\* the trainer used directly, and the loads of the InferencePipeline on what
\* trainer.save leaves at the model path
NextTrainer == TrainTrainer \/ PredictTrainer \/ SaveTrainer \/ LoadTrainer \/ LoadPipeline

\* the state of the pipeline objects while none of them is used
IdlePipe ==
    /\ trainer = NewTrainer("XGBoost", TRUE)
    /\ files = [model |-> NoFile, preprocessor |-> NoFile]
    /\ ip = NewInferencePipeline
    /\ last = [op |-> "new", arg |-> None, out |-> None, err |-> NoError, loads |-> 0,
               load_err |-> NoError, loaded |-> FALSE]

IdleApi == resp = None

\* nothing else runs
IdleExt == call = None /\ orch = None /\ srv = None

IdlePre ==
    /\ pre = [T |-> NewTrainPreprocessor, R |-> NewInferencePreprocessor]
    /\ disk = NoFile
    /\ op = "new" /\ who = "T" /\ arg = None /\ out = None /\ err = NoError

-----------------------------------------------------------------------------
(* Input validation (ObesityInputSchema, validate_input_records) and the      *)
(* prediction endpoint.  A record is a function from field names to values;   *)
(* values have the JSON type the field is declared with.  The handler keeps   *)
(* nothing between requests (it builds a new InferencePipeline each time), so *)
(* a behaviour of the endpoint is one request.                                *)

MaxBatch == 2       \* longest list of records in one request

\* the fields of ObesityInputSchema in declaration order
SchemaOrder ==
    <<"Gender", "Age", "Height", "Weight", "family_history_with_overweight", "FAVC",
      "FCVC", "NCP", "CAEC", "SMOKE", "CH2O", "SCC", "FAF", "TUE", "CALC", "MTRANS">>

StrFields == {"Gender", "family_history_with_overweight", "FAVC", "CAEC", "SMOKE",
              "SCC", "CALC", "MTRANS"}

\* Field(..., ge/gt, le) of the float fields: lower limit, whether it is strict
\* (gt) or not (ge), upper limit (le) if any
FloatLimits ==
    [Age |-> [lo |-> 0, strict |-> FALSE, le |-> Some(120)],
     Height |-> [lo |-> 0, strict |-> TRUE, le |-> None],
     Weight |-> [lo |-> 0, strict |-> TRUE, le |-> None],
     FCVC |-> [lo |-> 0, strict |-> FALSE, le |-> Some(3)],
     NCP |-> [lo |-> 0, strict |-> FALSE, le |-> Some(5)],
     CH2O |-> [lo |-> 0, strict |-> FALSE, le |-> Some(5)],
     FAF |-> [lo |-> 0, strict |-> FALSE, le |-> Some(5)],
     TUE |-> [lo |-> 0, strict |-> FALSE, le |-> Some(3)]]

FloatFields == DOMAIN FloatLimits
SchemaFields == Range(SchemaOrder)

\* the example request of the endpoint's documentation
ExampleRecord ==
    [Gender |-> "Male", Age |-> 25, Height |-> 175, Weight |-> 70,
     family_history_with_overweight |-> "Yes", FAVC |-> "Yes", FCVC |-> 2, NCP |-> 3,
     CAEC |-> "Sometimes", SMOKE |-> "No", CH2O |-> 2, SCC |-> "No", FAF |-> 2,
     TUE |-> 1, CALC |-> "Sometimes", MTRANS |-> "Public_Transport"]

\* the records of the requests: the example with some fields changed, or with
\* one field left out
RequestRecords ==
    {[ExampleRecord EXCEPT !.Gender = g, !.Age = a, !.Height = h, !.FAVC = f] :
        g \in {"Male", "Other"}, a \in {0, 121}, h \in {0, 175}, f \in {"Yes", "banana"}}
    \cup {[k \in SchemaFields \ {"MTRANS"} |-> ExampleRecord[k]]}

Batches == UNION {[1..n -> RequestRecords] : n \in 0..MaxBatch}

\* the float constraint of field k on value v
InLimits(k, v) ==
    /\ IF FloatLimits[k].strict THEN v > FloatLimits[k].lo ELSE v >= FloatLimits[k].lo
    /\ FloatLimits[k].le = None \/ v <= FloatLimits[k].le.val

\* @validator("Gender")
GenderMustBeValid(v) == v \in {"Male", "Female"}

\* @validator("family_history_with_overweight", ..., "MTRANS"): isinstance(v, str)
ValidateCategoricalFields(v) == TRUE

\* ObesityInputSchema(**record): the fields that fail validation
SchemaErrors(record) ==
    {k \in SchemaFields : k \notin DOMAIN record}
    \cup {k \in FloatFields \cap DOMAIN record : ~InLimits(k, record[k])}
    \cup {k \in {"Gender"} \cap DOMAIN record : ~GenderMustBeValid(record[k])}
    \cup {k \in (StrFields \ {"Gender"}) \cap DOMAIN record :
              ~ValidateCategoricalFields(record[k])}

\* mutant: records that fail validation are left out of the result
ValidateSkipInvalid(records) ==
    [err |-> NoError, out |-> Some(SelectSeq(records, LAMBDA r : SchemaErrors(r) = {}))]

\* validate_input_records: the first record that fails raises ValueError
ValidateInputRecords(records) ==
    IF \E i \in 1..Len(records) : SchemaErrors(records[i]) # {}
    THEN [err |-> ValueError, out |-> None]
    ELSE [err |-> NoError, out |-> Some(records)]

\* the attributes of the Settings dataclass
SettingsFields ==
    {"mlflow_tracking_uri", "experiment_name", "model_name", "artifact_dir",
     "target_column", "test_size", "random_state", "log_dir", "log_level"}

\* a response of the endpoint: what validation gave, the HTTP status, the body
\* (result of the pipeline), the error detail, and whether an exception other
\* than HTTPException left the handler
Response(validated, status, body, detail, escaped) ==
    [validated |-> validated, status |-> status, body |-> body, detail |-> detail,
     escaped |-> escaped]

\* pd.DataFrame([v.dict() for v in validated]): the columns are the keys of the
\* records, so the frame of an empty list has no column
RequestFrame(validated) ==
    IF validated = <<>>
    THEN DataFrame(<<>>, [c \in {} |-> "object"], <<>>)
    ELSE DataFrame(SchemaOrder,
                   [c \in SchemaFields |-> IF c \in StrFields THEN "object" ELSE "number"],
                   [i \in 1..Len(validated) |-> [c \in SchemaFields |-> validated[i][c]]])

\* the handler after validation returned v
Handle(v, fs) ==
    IF v.err # NoError THEN Response(v, 400, None, v.err, FALSE)
    ELSE IF "best_model_name" \notin SettingsFields
         THEN Response(v, 400, None, AttributeError, FALSE)
    ELSE IF PipelinePredict(NewInferencePipeline, fs, RequestFrame(v.out.val)).err # NoError
         THEN Response(v, 400, None,
                       PipelinePredict(NewInferencePipeline, fs,
                                       RequestFrame(v.out.val)).err, FALSE)
    ELSE Response(v, 200,
                  PipelinePredict(NewInferencePipeline, fs, RequestFrame(v.out.val)).out,
                  NoError, FALSE)

\* mutant: only failures of the pipeline are caught
RouterUncaught(records, fs) ==
    IF ValidateInputRecords(records).err # NoError
    THEN Response(ValidateInputRecords(records), 500, None,
                  ValidateInputRecords(records).err, TRUE)
    ELSE Response(ValidateInputRecords(records), 400, None, AttributeError, FALSE)

\* predict(records) of the router: every exception raised in the handler becomes
\* HTTPException(status_code=400, detail=str(e))
RouterPredict(records, fs) == Handle(ValidateInputRecords(records), fs)

InitApi == resp = None

\* POST /api/v1/predict/ with the body records
Request ==
    \E records \in Batches :
        /\ resp = None
        /\ resp' = Some([records |-> records] @@ RouterPredict(records, files))
        /\ UNCHANGED <<preVars, cmpVars, pipeVars, extVars>>

-----------------------------------------------------------------------------
(* The API process serving requests.  FastAPI runs a handler declared with    *)
(* def in a thread of its pool, so two requests can be in the handler at the  *)
(* same time.  A request is at "validate" (before line 64), at "serve" (after *)
(* validation returned, before the rest of the handler) or "done".  All the   *)
(* handler's objects are locals of the request; the artifact files are what   *)
(* the requests share.                                                        *)

Requests == {1, 2}

\* the bodies sent to the process
ServeBatches ==
    {<<ExampleRecord>>,
     <<ExampleRecord, [ExampleRecord EXCEPT !.Gender = "Female", !.Age = 40]>>,
     <<[ExampleRecord EXCEPT !.Gender = "Other"]>>,
     <<ExampleRecord, [ExampleRecord EXCEPT !.Age = 121]>>}

\* the artifact directory after a complete training run of trainer b
TrainedFiles(b, hi) ==
    Artifacts(NewTrainer(b, TRUE), [model |-> NoFile, preprocessor |-> NoFile],
              Preprocessed(Table(<<rA, rB>>), Table(<<rA>>)), 1, hi, Returns).files

\* the InferencePipeline the handler builds and how often it called load():
\* none when the handler raised before line 71
Built(r) == [pipeline |-> Some(r.self), loads |-> r.loads]

HandlerPipeline(v, fs) ==
    IF v.err # NoError \/ "best_model_name" \notin SettingsFields
    THEN [pipeline |-> None, loads |-> 0]
    ELSE Built(PipelinePredict(NewInferencePipeline, fs, RequestFrame(v.out.val)))

IdleRequest == [pc |-> "idle"]

InitServe ==
    /\ srv = Some([reqs |-> [r \in Requests |-> IdleRequest],
                   loaded |-> FALSE, reloaded |-> FALSE])
    /\ \E b \in Backends, hi \in Labels : files = TrainedFiles(b, hi)
    /\ trainer = NewTrainer("XGBoost", TRUE)
    /\ ip = NewInferencePipeline
    /\ last = [op |-> "new", arg |-> None, out |-> None, err |-> NoError, loads |-> 0,
               load_err |-> NoError, loaded |-> FALSE]

\* request r now is q; n calls of load() were made in the step
Stepped(r, q, n) ==
    srv' = Some([reqs |-> [srv.val.reqs EXCEPT ![r] = q],
                 loaded |-> srv.val.loaded \/ n > 0,
                 reloaded |-> srv.val.reloaded \/ (srv.val.loaded /\ n > 0)])

\* a request enters the handler; later: a request with a valid body was
\* answered before this one arrived
Arrive(r) ==
    \E records \in ServeBatches :
        /\ srv.val.reqs[r].pc \in {"idle", "done"}
        /\ Stepped(r, [pc |-> "validate", records |-> records,
                       later |-> \E o \in Requests :
                                     /\ srv.val.reqs[o].pc = "done"
                                     /\ srv.val.reqs[o].resp.validated.err = NoError], 0)
        /\ UNCHANGED <<preVars, cmpVars, pipeVars, apiVars, call, orch>>

\* the request once the handler is left: the response, the pipeline the
\* request built and its calls of load()
Answer(q, response, built) ==
    [pc |-> "done", records |-> q.records, later |-> q.later,
     resp |-> response, pipeline |-> built.pipeline, loads |-> built.loads]

\* the handler's result once validation returned v
Finish(q, v, fs) == Answer(q, Handle(v, fs), HandlerPipeline(v, fs))

\* request r after validate_input_records returned or raised v
Validated(r, q, v, fs) ==
    IF v.err # NoError
    THEN Stepped(r, Finish(q, v, fs), 0)
    ELSE Stepped(r, [pc |-> "serve", records |-> q.records, later |-> q.later, v |-> v], 0)

\* validated = validate_input_records(records): raises (the request is answered
\* 400) or returns
ValidateStep(r) ==
    /\ srv.val.reqs[r].pc = "validate"
    /\ Validated(r, srv.val.reqs[r], ValidateInputRecords(srv.val.reqs[r].records), files)
    /\ UNCHANGED <<preVars, cmpVars, pipeVars, apiVars, call, orch>>

\* mutant: the validated records are kept in a variable of the module, which
\* the request that validated last has overwritten
ServedShared(reqs, r, fs) ==
    IF \E o \in Requests \ {r} : reqs[o].pc = "serve"
    THEN Finish(reqs[r], reqs[CHOOSE o \in Requests \ {r} : reqs[o].pc = "serve"].v, fs)
    ELSE Finish(reqs[r], reqs[r].v, fs)

\* lines 65-79 of the handler for request r
Served(reqs, r, fs) == Finish(reqs[r], reqs[r].v, fs)

\* request r left the handler as q
Left(r, q) == Stepped(r, q, q.loads)

ServeStep(r) ==
    /\ srv.val.reqs[r].pc = "serve"
    /\ Left(r, Served(srv.val.reqs, r, files))
    /\ UNCHANGED <<preVars, cmpVars, pipeVars, apiVars, call, orch>>

NextServe == \E r \in Requests : Arrive(r) \/ ValidateStep(r) \/ ServeStep(r)

-----------------------------------------------------------------------------
(* The orchestration script (main): one TrainingPipeline run per trainer, in  *)
(* the order of the trainers dict, then comparator.compare and the            *)
(* registration of the best model.  The data file, hence the split, is the    *)
(* same for every run.  pc is the index of the next trainer to run; status is *)
(* "running", then "done" or "failed".                                        *)

\* the keys of the trainers dict of main, in insertion order
TrainerOrder == <<"CatBoost", "XGBoost", "LightGBM">>

NoFiles == [model |-> NoFile, preprocessor |-> NoFile]

\* the path registered for a model name
ModelPath(name) == <<name, "model">>

\* a <= b for fractions with positive denominators
FracLeq(a, b) == a[1] * b[2] <= b[1] * a[2]

\* max(results, key=lambda k: results[k]["f1_score"]) over fractions: the first
\* key, in the order of the dict, of maximal f1_score
MaxKeyF1(d) ==
    LET best == CHOOSE i \in 1..Len(d) :
                    /\ \A j \in 1..Len(d) : FracLeq(d[j].val.f1_score, d[i].val.f1_score)
                    /\ \A j \in 1..(i - 1) :
                           ~FracLeq(d[i].val.f1_score, d[j].val.f1_score)
    IN  d[best].name

\* self.model.fit(None, None, ...): what the library raises
FitNone(b) == LibraryError(b, ValueError)

\* comparator.compare(trainers, None, None, None, None) on a new comparator:
\* the first trainer's train(None, None, None, None) raises
CompareOnNone(order, res) ==
    IF order = <<>> THEN [ret |-> None, err |-> EmptyTrainerSetError]
    ELSE [ret |-> None, err |-> FitNone(Head(order))]

InitOrch ==
    \E X_train \in SplitTrain, X_valid \in SplitValid, y_valid \in [1..1 -> Labels],
       fit_verbose \in [Range(TrainerOrder) -> BOOLEAN] :
        /\ \A n \in Range(TrainerOrder) : fit_verbose[n] \in FitTakesVerbose(n)
        /\ orch = Some([pc |-> 1, status |-> "running",
                     X_train |-> X_train, X_valid |-> X_valid, y_valid |-> y_valid,
                     trainers |-> [n \in Range(TrainerOrder) |->
                                      NewTrainer(n, fit_verbose[n])],
                     files |-> [n \in Range(TrainerOrder) |-> NoFiles],
                     results |-> <<>>, best |-> None, registered |-> None,
                     err |-> NoError])

\* main stopped with the exception e
OrchFailed(o, e) == [o EXCEPT !.status = "failed", !.err = e]

\* pipeline.run() of trainer name returned or raised: a is what the run left,
\* preds the predictions on the validation split
OrchRan(o, name, a, preds) ==
    IF a.err # NoError
    THEN OrchFailed([o EXCEPT !.trainers[name] = a.trainer, !.files[name] = a.files],
                    a.err)
    ELSE [o EXCEPT !.trainers[name] = a.trainer, !.files[name] = a.files,
                   !.results = DictSet(o.results, name,
                                       Evaluate(o.y_valid, preds.out.val).ret),
                   !.pc = o.pc + 1]

\* the run of trainer name after the preprocessing step gave p
OrchArtifacts(o, name, p, hi, stop) ==
    IF p.err # NoError THEN OrchFailed(o, p.err)
    ELSE OrchRan(o, name,
                 Artifacts(o.trainers[name], o.files[name], p, 1, hi, stop),
                 TrainerPredict(Artifacts(o.trainers[name], o.files[name], p, 1, hi,
                                          stop).trainer,
                                p.X_valid_t))

\* one pass of the for loop of main: pipeline = TrainingPipeline(trainer);
\* results[name] = pipeline.run()
OrchTrain ==
    \E hi \in Labels, stop \in RunStops :
        /\ orch.val.status = "running"
        /\ orch.val.pc \in 1..Len(TrainerOrder)
        /\ orch' = Some(OrchArtifacts(orch.val, TrainerOrder[orch.val.pc],
                                      Preprocessed(orch.val.X_train, orch.val.X_valid),
                                      hi, stop))
        /\ UNCHANGED <<preVars, cmpVars, pipeVars, apiVars, call, srv>>

\* the rest of main once compare returned or raised c
OrchRegister(o, c) ==
    IF c.err # NoError THEN OrchFailed(o, c.err)
    ELSE [o EXCEPT !.status = "done", !.best = c.ret,
                   !.registered = Some(ModelPath(c.ret.val))]

\* lines 51-57 of main: compare, then register_model(<best>_model.joblib)
OrchFinish ==
    /\ orch.val.status = "running"
    /\ orch.val.pc = Len(TrainerOrder) + 1
    /\ orch' = Some(OrchRegister(orch.val, CompareOnNone(TrainerOrder, orch.val.results)))
    /\ UNCHANGED <<preVars, cmpVars, pipeVars, apiVars, call, srv>>

NextOrch == OrchTrain \/ OrchFinish

-----------------------------------------------------------------------------
(* Calls of functions that keep no state between calls: the input is chosen   *)
(* when the call is made, the action runs the function on it.                 *)

Pending(fn, in) == Some([fn |-> fn, in |-> in, out |-> None])

IsPending(fn) == call # None /\ call.val.fn = fn /\ call.val.out = None

Return(v) == call' = Some([call.val EXCEPT !.out = Some(v)])

\* the ages the input schema accepts (whole years)
AcceptedAges == {a \in -1..(FloatLimits.Age.le.val + 1) : InLimits("Age", a)}

\* a one-row table whose Age is a
AgeTable(a) == Table(<<[rA EXCEPT !.Age = a]>>)

\* the preprocessors transform can be called on: a TrainPreprocessor after a
\* fit that returned, an InferencePreprocessor after the load of its artifact
FittedPreprocessors ==
    LET trained == {TrainFit(NewTrainPreprocessor, t).self :
                       t \in {u \in Tables : Derived(u).err = NoError}}
    IN  trained
        \cup {InferenceLoad(NewInferencePreprocessor, TrainSaveContent(p)) : p \in trained}

InitCall ==
    call \in {Pending("evaluate", x) : x \in EvalInputs}
              \cup {Pending("derive", AgeTable(a)) : a \in AcceptedAges}
              \cup {Pending("fit", [self |-> NewTrainPreprocessor, data |-> t]) :
                        t \in Tables}
              \cup {Pending("transform", [self |-> p, data |-> t]) :
                        p \in FittedPreprocessors, t \in Tables}

\* evaluator.evaluate(y_true, y_pred)
CallEvaluate ==
    /\ IsPending("evaluate")
    /\ Return(Evaluate(call.val.in.y_true, call.val.in.y_pred))
    /\ UNCHANGED <<preVars, cmpVars, pipeVars, apiVars, orch, srv>>

\* the derived-feature statements of fit and those of transform, each run on
\* the table of the call
CallDerive ==
    /\ IsPending("derive")
    /\ Return([fit |-> Derive(call.val.in), transform |-> Derive(call.val.in)])
    /\ UNCHANGED <<preVars, cmpVars, pipeVars, apiVars, orch, srv>>

\* preprocessor.fit(data)
CallFit ==
    /\ IsPending("fit")
    /\ Return(TrainFit(call.val.in.self, call.val.in.data))
    /\ UNCHANGED <<preVars, cmpVars, pipeVars, apiVars, orch, srv>>

\* transform called a second time on the table the first call r left
Again(r) == [first |-> r, second |-> Transform(r.self, r.data)]

\* preprocessor.transform(data); preprocessor.transform(data)
CallTransform ==
    /\ IsPending("transform")
    /\ Return(Again(Transform(call.val.in.self, call.val.in.data)))
    /\ UNCHANGED <<preVars, cmpVars, pipeVars, apiVars, orch, srv>>

NextCall == CallEvaluate \/ CallDerive \/ CallFit \/ CallTransform

-----------------------------------------------------------------------------
(* Specifications *)

Init == InitPre /\ InitCmp /\ IdlePipe /\ IdleApi /\ IdleExt

\* no preprocessor call is made while the comparator runs
InitCompare == IdlePre /\ InitCmp /\ IdlePipe /\ IdleApi /\ IdleExt

\* one trainer, its artifact files and one InferencePipeline
InitPipeline == IdlePre /\ InitCmp /\ InitPipe /\ IdleApi /\ IdleExt

Next == NextPre

\* the preprocessor life cycle
Spec == Init /\ [][Next]_vars

\* one ModelComparator and the compare calls made on it
SpecCmp == InitCompare /\ [][Compare]_vars

\* training runs and inference for one model name
SpecPipe == InitPipeline /\ [][NextPipe]_vars
SpecTrainer == InitPipeline /\ [][NextTrainer]_vars

\* one request to the prediction endpoint
InitEndpoint == IdlePre /\ InitCmp /\ IdlePipe /\ InitApi /\ IdleExt
SpecApi == InitEndpoint /\ [][Request]_vars

\* the API process, its artifacts written by a training run
InitProcess ==
    IdlePre /\ InitCmp /\ IdleApi /\ InitServe /\ call = None /\ orch = None
SpecServe == InitProcess /\ [][NextServe]_vars

\* one run of the orchestration script
InitOrchestration ==
    IdlePre /\ InitCmp /\ IdlePipe /\ IdleApi /\ InitOrch /\ call = None /\ srv = None
SpecOrch == InitOrchestration /\ [][NextOrch]_vars

\* one call of a function that keeps no state
InitFunction ==
    IdlePre /\ InitCmp /\ IdlePipe /\ IdleApi /\ InitCall /\ orch = None /\ srv = None
SpecCall == InitFunction /\ [][NextCall]_vars

-----------------------------------------------------------------------------
(* Properties of the preprocessors (checked under Spec) *)

\* the output feature names of a fitted pipeline: numeric columns in fit-time
\* order, then one name per (categorical column, category) in fit-time order
ExpectedNames(p) == p.num \o FeatureNamesOut(p)

\* the (column, category) pair behind each one-hot output position
OneHotPairs(p) ==
    Flatten([k \in 1..Len(p.cat) |->
                [j \in 1..Len(p.categories[p.cat[k]]) |->
                    <<p.cat[k], p.categories[p.cat[k]][j]>>]])

\* a transformer in the state a fit leaves, or a load of a fitted pipeline into a
\* new transformer leaves
FittedState(self) ==
    /\ self.fitted
    /\ self.pipeline # None
    /\ self.pipeline.st = "fitted"
    /\ self.kind = "train" =>
           \/ self.feature_names = None
           \/ self.feature_names = Some(ExpectedNames(self.pipeline))

\* the table has every column that transform reads with pipeline p
HasInputColumns(df, p) ==
    {"Age", "Height", "Weight"} \cup Range(p.num) \cup Range(p.cat)
        \subseteq Range(df.cols) \cup {"BMI", "Age_Group"}

\* the last call was x.transform(...) and it returned a table
Transformed == op = "transform" /\ err = NoError /\ out # None

\* C1: transform on a transformer that has never been fitted or loaded raises
\* the not-fitted error whatever the table, returns nothing and leaves the
\* transformer as it was.
C1_NotFittedGuard ==
    [][(op' = "transform" /\ ~pre[who'].fitted)
          => (err' = NotFittedError /\ out' = None /\ pre' = pre)]_vars

\* C1 witness: a never-fitted InferencePreprocessor was asked to transform a
\* table and the guard raised.
C1_Witness ==
    /\ op = "transform" /\ who = "R" /\ pre["R"].kind = "inference"
    /\ ~pre["R"].fitted /\ err = NotFittedError /\ out = None

\* C2: right after save on a transformer fitted by fit, loading the file into a
\* new TrainPreprocessor or a new InferencePreprocessor gives a transformer whose
\* transform succeeds wherever the saved one's does, with the same values
\* element-wise and the same numbers of rows and columns.
C2_RoundTrip ==
    (op = "save" /\ who = "T" /\ pre["T"].fitted) =>
        \A fresh \in {NewTrainPreprocessor, NewInferencePreprocessor}, D \in Tables :
            LET a == Transform(pre["T"], D)
                b == Transform(Load(fresh, disk.obj), D)
            IN  a.err = NoError =>
                    /\ b.err = NoError
                    /\ b.out.val.values = a.out.val.values
                    /\ Len(b.out.val.values) = Len(D.rows)
                    /\ Len(b.out.val.columns) = Len(a.out.val.columns)

\* C2 witness: a transformer fitted by fit has just been saved.
C2_Witness ==
    /\ op = "save" /\ who = "T" /\ pre["T"].fitted
    /\ pre["T"].feature_names # None
    /\ disk = File(pre["T"].pipeline) /\ disk.obj # None

\* C3 (as claimed): after save on a fitted transformer and load into a new one,
\* the restored transformer holds the saved one's feature names, and its
\* transform labels the output columns with them, in that order.
C3_RestoredColumnNames ==
    (op = "save" /\ who = "T" /\ pre["T"].fitted /\ pre["T"].feature_names # None) =>
        \A fresh \in {NewTrainPreprocessor, NewInferencePreprocessor}, D \in Tables :
            LET restored == Load(fresh, disk.obj)
                b == Transform(restored, D)
            IN  /\ "feature_names" \in DOMAIN restored
                /\ restored.feature_names = pre["T"].feature_names
                /\ b.err = NoError => b.out.val.columns = pre["T"].feature_names.val

\* C4: every table a transform returns has one column per fit-time feature: the
\* numeric columns in fit-time order (each row's value scaled with that column's
\* parameters), then the one-hot columns in fit-time category order; a
\* transformer fitted by fit labels them with the fit-time names; and any other
\* table of the same schema gets the same columns.
C4_ColumnOrder ==
    Transformed =>
        LET p == pre[who].pipeline
            n == Len(p.num)
            pairs == OneHotPairs(p)
            t == out.val
            x == arg.val.rows
        IN  /\ Len(t.columns) = n + Len(pairs)
            /\ \A i \in 1..Len(t.values) :
                  /\ Len(t.values[i]) = n + Len(pairs)
                  /\ \A k \in 1..n :
                        t.values[i][k] =
                            ScalerTransform(p.scaler[p.num[k]], x[i][p.num[k]],
                                            Unit(p.num[k]))
                  /\ \A k \in 1..Len(pairs) :
                        t.values[i][n + k] =
                            IF x[i][pairs[k][1]] = pairs[k][2] THEN One ELSE Zero
            /\ (pre[who].kind = "train"
                    /\ pre[who].feature_names = Some(ExpectedNames(p)))
                   => t.columns = ExpectedNames(p)
            /\ \A B \in Tables :
                  LET b == Transform(pre[who], B)
                  IN  (Derived(B).data.cols = arg.val.cols /\ b.err = NoError)
                          => /\ b.out.val.columns = t.columns
                             /\ \A i \in 1..Len(b.out.val.values) :
                                   Len(b.out.val.values[i]) = Len(t.columns)

\* C4 witness: a transformer fitted on two rows transformed a single record.
C4_Witness ==
    /\ Transformed /\ who = "T"
    /\ pre["T"].feature_names = Some(ExpectedNames(pre["T"].pipeline))
    /\ Len(out.val.values) = 1
    /\ Len(out.val.columns) = 8

\* C5: a transform call changes no learned parameter: scaling parameters,
\* vocabularies, feature names and the fitted flag of every transformer are
\* after the call what they were before it.
C5_TransformKeepsState == [][op' = "transform" => pre' = pre]_vars

\* C5 witness: a fitted transformer transformed a table whose categories differ
\* from those it was fitted on.
C5_Witness ==
    /\ Transformed /\ pre[who].fitted
    /\ \E c \in Range(pre[who].pipeline.cat), i \in 1..Len(arg.val.rows) :
           arg.val.rows[i][c] \notin Range(pre[who].pipeline.categories[c])

\* C6: every transformer starts with fitted = FALSE, a TrainPreprocessor.fit that
\* returns leaves fitted = TRUE, and no call (fit, transform, save, load) turns
\* fitted from TRUE to FALSE.
C6_Lifecycle ==
    /\ \A id \in Ids : ~pre[id].fitted
    /\ [][/\ \A id \in Ids : pre[id].fitted => pre'[id].fitted
          /\ (op' = "fit" /\ pre[who'].kind = "train" /\ err' = NoError)
                 => pre'[who'].fitted]_vars

\* C6 witness: a fitted TrainPreprocessor has been loaded from a file and is
\* still fitted.
C6_Witness ==
    /\ op = "load" /\ who = "T" /\ err = NoError
    /\ pre["T"].fitted /\ pre["T"].feature_names # None

\* C7: for a transformer in a fitted state, transform of a table that has the
\* columns it reads does not raise, and a row whose value in a categorical column was
\* not seen at fit time has 0 in every one-hot column of that column.
C7_UnseenCategory ==
    (op = "transform" /\ FittedState(pre[who])
        /\ HasInputColumns(arg.val, pre[who].pipeline)) =>
        /\ err = NoError
        /\ out # None
        /\ LET p == pre[who].pipeline
               pairs == OneHotPairs(p)
           IN  \A i \in 1..Len(arg.val.rows), k \in 1..Len(pairs) :
                   arg.val.rows[i][pairs[k][1]] \notin Range(p.categories[pairs[k][1]])
                       => out.val.values[i][Len(p.num) + k] = Zero

\* C7 witness: a transformer fitted on Male rows only transformed a Female row.
C7_Witness ==
    /\ Transformed /\ FittedState(pre[who])
    /\ pre[who].pipeline.categories["Gender"] = <<"Male">>
    /\ \E i \in 1..Len(arg.val.rows) : arg.val.rows[i]["Gender"] = "Female"

\* the one error the claim has load raise for a malformed file, the
\* corrupt-artifact error: no such class exists, joblib's UnpicklingError stands for it
CorruptArtifactError == UnpicklingError

\* C15 (as claimed): load of a malformed artifact file (bytes that are no pickle,
\* or the pickle of something that is not a saved transformer) fails with the
\* corrupt-artifact error and leaves the fitted flag and the learned state of the
\* transformer as they were.
C15_MalformedArtifactRejected ==
    [][(op' = "load" /\ disk.exists /\ (~disk.pickle \/ disk = File(NotAPipeline)))
          => (err' = CorruptArtifactError /\ pre' = pre)]_vars

\* the error fit raises when it reads a column the table lacks: the schema error
SchemaError == KeyError

\* C16 (as claimed): fit, on a transformer not yet fitted, of a table without the
\* label column, or without one of the raw columns Weight, Height, Age, raises
\* the schema error and leaves the transformer unfitted.
C16_FitRejectsMissingColumns ==
    [][(/\ op' = "fit" /\ who' = "T" /\ ~pre["T"].fitted
        /\ \E c \in {TargetColumn, "Weight", "Height", "Age"} : ~HasColumn(arg'.val, c))
          => (err' = SchemaError /\ ~pre'["T"].fitted)]_vars

\* C26: a fit that succeeds on a transformer already fitted leaves it in the
\* state fit leaves a new transformer given the same table: column lists,
\* scaling parameters, vocabularies and feature names are those of this fit alone.
C26_RefitReplaces ==
    [][(op' = "fit" /\ who' = "T" /\ err' = NoError /\ pre["T"].fitted)
          => pre'["T"] = TrainFit(NewTrainPreprocessor, arg'.val).self]_vars

\* C26 witness: the transformer was fitted and saved, then fitted again on a
\* table that gives another pipeline and other feature names.
C26_Witness ==
    /\ op = "fit" /\ who = "T" /\ err = NoError
    /\ disk.exists /\ disk.pickle /\ disk.obj # None /\ disk.obj.st = "fitted"
    /\ disk.obj # pre["T"].pipeline
    /\ ExpectedNames(disk.obj) # pre["T"].feature_names.val

\* C28 (as claimed): whenever fitted is true on a TrainPreprocessor, pipeline is
\* a fitted transformation and feature_names is the list of output columns of
\* that pipeline.
C28_FittedMeansUsable ==
    \A id \in Ids :
        (pre[id].kind = "train" /\ pre[id].fitted) =>
            /\ pre[id].pipeline # None
            /\ pre[id].pipeline.st = "fitted"
            /\ pre[id].feature_names = Some(ExpectedNames(pre[id].pipeline))

\* C24 (as claimed): when a save of the artifact is interrupted during the
\* write, the path afterwards holds the complete previous artifact or no
\* artifact, so that a later load never reads a partially written one.
C24_CrashSafeWrite ==
    [][op' = "save interrupted" => (disk' = disk \/ disk' = NoFile)]_vars

-----------------------------------------------------------------------------
(* Properties of the comparator (checked under SpecCmp) *)

\* the last compare call returned (name, metrics)
Compared == cmp # None /\ cmp.val.ret # None

\* C8 (as claimed): when several trainers of a call reach the same maximal F1,
\* the call returns the one that comes first in the order of the trainers
\* mapping passed to it.
C8_TieBreakFirstInTrainers ==
    LET t == cmp.val.trainers
        IsMax(i) == \A j \in 1..Len(t) : t[j].val.f1_score <= t[i].val.f1_score
    IN  (Compared /\ \E i, j \in 1..Len(t) : i # j /\ IsMax(i) /\ IsMax(j)) =>
            \E i \in 1..Len(t) :
                /\ cmp.val.ret.val.name = t[i].name
                /\ IsMax(i)
                /\ \A j \in 1..(i - 1) : ~IsMax(j)

\* C9 (as claimed): the name a compare call returns is a key of the trainers
\* passed to that call, the result returned is the evaluation made in that call,
\* and its F1 is at least the F1 of every trainer of that call.
C9_SelectionAmongTrainers ==
    Compared =>
        LET t == cmp.val.trainers
            r == cmp.val.ret.val
        IN  /\ r.name \in Keys(t)
            /\ r.metrics = Get(t, r.name)
            /\ \A i \in 1..Len(t) : t[i].val.f1_score <= r.metrics.f1_score

\* C10 (as claimed): compare with an empty trainers mapping raises the
\* empty-trainer-set error and returns no best model, whatever was compared
\* before.
C10_EmptyTrainersRaise ==
    (cmp # None /\ cmp.val.trainers = <<>>) =>
        (cmp.val.err = EmptyTrainerSetError /\ cmp.val.ret = None)

-----------------------------------------------------------------------------
(* Properties of the trainers (checked under SpecTrainer) and of the         *)
(* pipelines (checked under SpecPipe)                                         *)

\* C11: for each of the three backends, predict on a trainer that was never
\* trained raises the backend's not-trained error and returns no predictions.
C11_PredictBeforeTrain ==
    [][(last'.op = "trainer.predict" /\ trainer.model = NewEstimator(trainer.model_name))
          => (last'.err = NotTrainedError(trainer.model_name) /\ last'.out = None)]_vars

\* C11 witness: predict was called on a trainer never trained, and raised.
C11_Witness ==
    /\ last.op = "trainer.predict" /\ trainer.model = NewEstimator(trainer.model_name)
    /\ last.arg # None /\ Len(last.arg.val.values) > 0
    /\ last.err = NotTrainedError(trainer.model_name)

\* C12 (as claimed): an InferencePipeline starts unloaded; predict on a pipeline
\* on which no load has succeeded yet runs load before it transforms; once a load
\* has succeeded the pipeline keeps a model and a fitted preprocessor, and a later
\* predict does not load again and keeps the objects it has.
C12_LoadStateMachine ==
    /\ (ip = NewInferencePipeline /\ ~last.loaded)
    /\ [][/\ (last'.op = "predict" /\ ~last.loaded) => last'.loads = 1
          /\ last.loaded =>
                /\ last'.loaded
                /\ ip'.model # None /\ ip'.preprocessor # None
                /\ ip'.preprocessor.val.fitted
          /\ (last'.op = "predict" /\ last.loaded) => (last'.loads = 0 /\ ip' = ip)]_vars

\* C13 (as claimed): InferencePipeline.predict on a table of n rows that has the
\* columns the transformation reads, made on a pipeline that holds the model and
\* the fitted transformation of one training run, returns; its predictions list
\* has exactly n labels and the i-th label is the model's prediction for the
\* transformed i-th input row.
C13_PredictionsInRowOrder ==
    (/\ last.op = "predict"
     /\ ip.model # None /\ ip.preprocessor # None
     /\ FittedState(ip.preprocessor.val)
     /\ ip.model.val.made_with = ip.preprocessor.val.pipeline
     /\ HasInputColumns(last.arg.val, ip.preprocessor.val.pipeline))
        => /\ last.err = NoError
           /\ Len(last.out.val.predictions) = Len(last.arg.val.rows)
           /\ \A i \in 1..Len(last.arg.val.rows) :
                  last.out.val.predictions[i] =
                      Classify(ip.model.val,
                               TransformRow(ip.preprocessor.val.pipeline,
                                            Derived(last.arg.val).data.rows[i]))

\* C14 (as claimed): when the preprocessor artifact the InferencePipeline loaded
\* was saved from a transformer that was never fitted, predict fails with the
\* not-fitted error, and with no other failure or result.
C14_NeverFittedArtifact ==
    (/\ last.op = "predict"
     /\ ip.model # None /\ ip.preprocessor # None
     /\ ip.preprocessor.val.fitted
     /\ ip.preprocessor.val.pipeline = TrainSaveContent(NewTrainPreprocessor))
        => (last.err = NotFittedError /\ last.out = None)

-----------------------------------------------------------------------------
(* Properties of validation and of the endpoint (checked under SpecApi) *)

\* the request served contains a record that fails schema validation
HasInvalidRecord ==
    resp # None /\ \E i \in 1..Len(resp.val.records) : SchemaErrors(resp.val.records[i]) # {}

\* C17: when a record of the batch fails schema validation,
\* validate_input_records raises and returns no validated record, and the
\* endpoint's response carries no prediction.
C17_BatchAllOrNothing ==
    HasInvalidRecord =>
        /\ resp.val.validated.err # NoError
        /\ resp.val.validated.out = None
        /\ resp.val.body = None

\* C17 witness: a batch of one valid and one invalid record was refused as a whole.
C17_Witness ==
    /\ HasInvalidRecord
    /\ \E i \in 1..Len(resp.val.records) : SchemaErrors(resp.val.records[i]) = {}
    /\ resp.val.validated.out = None /\ resp.val.body = None

\* the values each categorical field documents (Field descriptions of the
\* schema; yes/no for family_history_with_overweight)
Enumerated ==
    [Gender |-> {"Male", "Female"},
     family_history_with_overweight |-> {"Yes", "No"},
     FAVC |-> {"Yes", "No"},
     CAEC |-> {"Yes", "No", "Sometimes"},
     SMOKE |-> {"Yes", "No"},
     SCC |-> {"Yes", "No"},
     CALC |-> {"No", "Sometimes", "Frequently"},
     MTRANS |-> {"Walking", "Bike", "Car", "Public_Transport"}]

\* C18 (as claimed): a batch holding a record in which some categorical field has
\* a value outside the field's enumerated set is rejected by validation.
C18_CategoricalMembership ==
    (/\ resp # None
     /\ \E i \in 1..Len(resp.val.records) :
            \E k \in StrFields \cap DOMAIN resp.val.records[i] :
                resp.val.records[i][k] \notin Enumerated[k])
        => (resp.val.validated.err # NoError /\ resp.val.validated.out = None)

\* C19: a request whose batch contains a record that fails validation is answered
\* with HTTP status 400 and an error detail, and no exception other than the
\* HTTPException carrying that answer leaves the handler.
C19_ValidationFailureIsClientError ==
    HasInvalidRecord =>
        /\ resp.val.status = 400
        /\ resp.val.detail # NoError
        /\ ~resp.val.escaped

\* C19 witness: a batch with an invalid record was answered 400 with the
\* validation error as detail.
C19_Witness ==
    /\ HasInvalidRecord
    /\ resp.val.status = 400 /\ resp.val.detail = ValueError /\ ~resp.val.escaped

-----------------------------------------------------------------------------
(* Pairing of the artifact files (checked under SpecPipe) *)

\* the file holds an object / a fitted model
HoldsObject(file) == file.exists /\ "obj" \in DOMAIN file
HoldsModel(file) == HoldsObject(file) /\ "made_with" \in DOMAIN file.obj

\* C20 (as claimed): whenever the model file and a preprocessor file written by
\* a training run are both on disk, the model was trained on features produced
\* by the transformation saved in the preprocessor file; and an InferencePipeline
\* that has loaded both holds a model and the transformation that produced its
\* training features.
C20_ArtifactsPaired ==
    /\ (/\ HoldsModel(files.model) /\ HoldsObject(files.preprocessor)
        /\ files.preprocessor.obj # TrainSaveContent(NewTrainPreprocessor))
           => files.model.obj.made_with = files.preprocessor.obj
    /\ (/\ ip.model # None /\ ip.preprocessor # None
        /\ ip.preprocessor.val.fitted
        /\ ip.preprocessor.val.pipeline # TrainSaveContent(NewTrainPreprocessor))
           => ip.model.val.made_with = ip.preprocessor.val.pipeline

\* C29 (as claimed): whenever model and preprocessor of the InferencePipeline
\* are both set, the preprocessor is fitted; and a predict made on a pipeline
\* whose last load failed runs load again.
C29_BothSetMeansLoaded ==
    /\ []((ip.model # None /\ ip.preprocessor # None) => ip.preprocessor.val.fitted)
    /\ [][(last.op = "load" /\ last.err # NoError /\ last'.op = "predict")
              => last'.loads = 1]_vars

-----------------------------------------------------------------------------
(* Properties of the evaluator and of the derived features (checked under     *)
(* SpecCall)                                                                  *)

\* the call of fn has returned
Returned_(fn) == call # None /\ call.val.fn = fn /\ call.val.out # None

\* C21 (as claimed): evaluate returns a result holding accuracy (the share of
\* positions where y_true equals y_pred), weighted precision, recall and F1, and
\* a square confusion matrix; for evaluate([0,1,1],[0,1,0]) accuracy is 2/3 and
\* the matrix is 2x2 with exactly one non-zero entry off the diagonal.
C21_EvaluationResult ==
    Returned_("evaluate") =>
        LET in == call.val.in
            r == call.val.out.val.ret
        IN  /\ {"accuracy", "precision", "recall", "f1_score"} \subseteq DOMAIN r
            /\ r.accuracy = AccuracyScore(in.y_true, in.y_pred)
            /\ (in.y_true = <<0, 1, 1>> /\ in.y_pred = <<0, 1, 0>>) => r.accuracy = <<2, 3>>
            /\ "confusion_matrix" \in DOMAIN r
            /\ \A i \in DOMAIN r.confusion_matrix :
                   Len(r.confusion_matrix[i]) = Len(r.confusion_matrix)
            /\ (in.y_true = <<0, 1, 1>> /\ in.y_pred = <<0, 1, 0>>) =>
                   /\ Len(r.confusion_matrix) = 2
                   /\ Cardinality({ij \in (1..2) \X (1..2) :
                          ij[1] # ij[2] /\ r.confusion_matrix[ij[1]][ij[2]] # 0}) = 1

AgeBands == {"Teen", "Young", "Adult", "Senior"}

\* C22 (as claimed): for every Age the input schema accepts, fit and transform
\* derive an Age_Group that is one of the four bands; 25 maps to Young, 40 to
\* Adult, and fit and transform give the same band to the same age.
C22_AgeBanding ==
    Returned_("derive") =>
        LET age == call.val.in.rows[1]["Age"]
            r == call.val.out.val
        IN  /\ r.fit.err = NoError /\ r.transform.err = NoError
            /\ r.fit.data.rows[1]["Age_Group"] \in AgeBands
            /\ r.transform.data.rows[1]["Age_Group"] \in AgeBands
            /\ r.fit.data.rows[1]["Age_Group"] = r.transform.data.rows[1]["Age_Group"]
            /\ age = 25 => r.fit.data.rows[1]["Age_Group"] = "Young"
            /\ age = 40 => r.fit.data.rows[1]["Age_Group"] = "Adult"

-----------------------------------------------------------------------------
(* Properties of the API process (checked under SpecServe) *)

\* request r has been answered
Done(r) == srv.val.reqs[r].pc = "done"

\* C23 (as claimed): over the requests the process serves, the artifact files
\* are loaded at most once, and a request with a valid body that arrives after
\* another one was answered is served, without a load, by a pipeline that holds
\* the loaded model and transformer.
C23_ArtifactsLoadedOnce ==
    /\ ~srv.val.reloaded
    /\ \A r \in Requests :
           (/\ Done(r) /\ srv.val.reqs[r].later
            /\ srv.val.reqs[r].resp.validated.err = NoError)
               => /\ srv.val.reqs[r].loads = 0
                  /\ srv.val.reqs[r].pipeline # None
                  /\ srv.val.reqs[r].pipeline.val.model # None
                  /\ srv.val.reqs[r].pipeline.val.preprocessor # None

\* C25: whatever the interleaving of two requests, the response of a request
\* is the one the handler gives to its body when it runs alone on the same
\* artifact files, and the artifact files stay as they were.
C25_RequestsDoNotInterfere ==
    /\ \A r \in Requests :
           Done(r) => srv.val.reqs[r].resp = RouterPredict(srv.val.reqs[r].records, files)
    /\ \E b \in Backends, hi \in Labels : files = TrainedFiles(b, hi)

\* C25 witness: a request with a valid body was answered while another request
\* with a different valid body was between validation and the rest of the handler.
C25_Witness ==
    /\ srv # None
    /\ \E r, o \in Requests :
           /\ Done(r) /\ srv.val.reqs[r].resp.validated.err = NoError
           /\ srv.val.reqs[o].pc = "serve"
           /\ srv.val.reqs[o].records # srv.val.reqs[r].records
           /\ srv.val.reqs[r].resp = RouterPredict(srv.val.reqs[r].records, files)

DerivedColumns == {"BMI", "Age_Group"}

\* table after differs from table before only in the derived columns: same
\* rows in the same order, every other column with its place, type and values
OnlyDerivedChanged(before, after) ==
    /\ Len(after.rows) = Len(before.rows)
    /\ Range(after.cols) \subseteq Range(before.cols) \cup DerivedColumns
    /\ SelectSeq(after.cols, LAMBDA c : c \notin DerivedColumns)
           = SelectSeq(before.cols, LAMBDA c : c \notin DerivedColumns)
    /\ \A c \in Range(before.cols) \ DerivedColumns :
           /\ after.dtype[c] = before.dtype[c]
           /\ \A i \in 1..Len(before.rows) : after.rows[i][c] = before.rows[i][c]

\* C30: fit and transform leave the caller's table as it was but for the
\* columns BMI and Age_Group, and a second transform of the same table returns
\* what the first returned.
C30_CallerTableEffect ==
    /\ Returned_("fit") =>
           OnlyDerivedChanged(call.val.in.data, call.val.out.val.data)
    /\ Returned_("transform") =>
           /\ OnlyDerivedChanged(call.val.in.data, call.val.out.val.first.data)
           /\ OnlyDerivedChanged(call.val.in.data, call.val.out.val.second.data)
           /\ call.val.out.val.second.err = call.val.out.val.first.err
           /\ call.val.out.val.second.out = call.val.out.val.first.out

\* C30 witness: transform of a two-row table without derived columns returned
\* twice, and the table now carries both derived columns.
C30_Witness ==
    /\ Returned_("transform")
    /\ call.val.out.val.first.err = NoError /\ call.val.out.val.second.err = NoError
    /\ Len(call.val.in.data.rows) = 2
    /\ call.val.in.data.rows[1] # call.val.in.data.rows[2]
    /\ ~HasColumn(call.val.in.data, "BMI")
    /\ HasColumn(call.val.out.val.first.data, "BMI")
    /\ HasColumn(call.val.out.val.first.data, "Age_Group")
    /\ call.val.in.self.kind = "inference"

-----------------------------------------------------------------------------
(* Properties of the orchestration (checked under SpecOrch) *)

\* every training run of the orchestration returned its metrics
AllTrained == Keys(orch.val.results) = Range(TrainerOrder)

\* C27 (as claimed): a model is registered only once every trainer's run has
\* completed and the best model has been selected, never after a failure; and
\* when every run has completed, the orchestration ends with the registration
\* of the <best>_model file of the trainer whose validation F1 is maximal.
C27_OrchestrationOrder ==
    /\ orch.val.registered # None =>
           /\ AllTrained /\ orch.val.best # None /\ orch.val.err = NoError
    /\ orch.val.err # NoError => orch.val.registered = None
    /\ (AllTrained /\ orch.val.status # "running") =>
           /\ orch.val.status = "done"
           /\ orch.val.best = Some(MaxKeyF1(orch.val.results))
           /\ orch.val.registered = Some(ModelPath(MaxKeyF1(orch.val.results)))

====
